---- MODULE Spec2Model ----
(***************************************************************************)
(* BBF: a compiler from a small imperative language to brainfuck, and the  *)
(* brainfuck executor that runs the emitted code.                          *)
(*                                                                         *)
(* The compiler (src/unnamed/part_001, lines 572-1475) keeps module-level  *)
(* state: brainfuckCode, memoryUsage (a Map, iterated in insertion order), *)
(* variables, pointerLocation, unsafePointerLocation and functions.  The   *)
(* executor (src/unnamed/part_000, lines 95-214) keeps memory,             *)
(* dataPointer, instructionPointer, output and inputPointer.               *)
(*                                                                         *)
(* A compilation context is a record holding the compiler's module-level   *)
(* variables; every compiler function is an operator from a context to a   *)
(* context, its return value in the field ret and a thrown Error in the    *)
(* field err.  Three history fields are kept beside the program's state:   *)
(* emittedAt (the value of pointerLocation when each instruction was       *)
(* appended), allocLog (what the allocator returned, and the status of     *)
(* that address at that moment) and reserved (the addresses of the unsafe  *)
(* region being compiled).                                                 *)
(***************************************************************************)
EXTENDS Integers, Sequences, FiniteSets, TLC

VARIABLES
    params,                 \* the inputs of this run: which program, which options
    phase,                  \* "idle", "compiling", "compiled", "failed", "running", "halted"
    rest,                   \* the tokens compile's forEach has not visited yet
    thrown,                 \* the Error that ended compile or the executor, "" if none
    brainfuckCode,          \* part_001:582
    emittedAt,              \* history: pointerLocation at the emission of each instruction
    memoryUsage,            \* part_001:586, a Map in insertion order
    variables,              \* part_001:592
    pointerLocation,        \* part_001:596
    functions,              \* part_001:602
    unsafePointerLocation,  \* part_001:616, <<>> is null
    allocLog,               \* history of the allocator's answers
    reserved,               \* history: addresses of the unsafe region in force
    memory,                 \* part_000:109, the cells written so far (others hold 0)
    dataPointer,            \* part_000:110
    instructionPointer,     \* part_000:111
    output,                 \* part_000:112, a sequence of characters
    inputPointer            \* part_000:113

vars == <<params, phase, rest, thrown, brainfuckCode, emittedAt, memoryUsage, variables,
          pointerLocation, functions, unsafePointerLocation, allocLog, reserved,
          memory, dataPointer, instructionPointer, output, inputPointer>>

compilerVars == <<brainfuckCode, emittedAt, memoryUsage, variables, pointerLocation,
                  functions, unsafePointerLocation, allocLog, reserved>>

executorVars == <<memory, dataPointer, instructionPointer, output, inputPointer>>

----------------------------------------------------------------------------
(* Bounds of the model.                                                    *)

\* longest array a checked program declares
MaxLen == 3
\* largest literal a checked program stores
MaxVal == 3
\* longest output a checked run is followed to: a program whose loop never
\* ends is followed until it has printed this many characters
MaxOutput == 6

(* Program constants.                                                      *)

\* part_000:107
memorySize == 30000

----------------------------------------------------------------------------
(* Sequences of instructions.                                              *)

Rep(ch, n) == [j \in 1..n |-> ch]

----------------------------------------------------------------------------
(* Tokens (src/src/parse.ts:353-450).  A literal carries the number setValue*)
(* turns into increments and the JavaScript type of its value; a variable  *)
(* reference carries name[0] and name[1], with static = TRUE when name[1]  *)
(* is a number and FALSE when it is a value token.                         *)

Lit(v) == [tokenType |-> "Literal", vtype |-> "number", value |-> v]
CharLit(code) == [tokenType |-> "Literal", vtype |-> "string", value |-> code]
Var(n) == [tokenType |-> "Variable", name |-> n, static |-> TRUE, index |-> 0]
VarAt(n, k) == [tokenType |-> "Variable", name |-> n, static |-> TRUE, index |-> k]
VarDyn(n, e) == [tokenType |-> "Variable", name |-> n, static |-> FALSE, index |-> e]
MathTok(op, l, r) == [tokenType |-> "Math", operator |-> op, left |-> l, right |-> r]
MaxTok == [tokenType |-> "Max"]

Declare(n, t) == [tokenType |-> "Declaration", name |-> n, type |-> t, array |-> <<>>]
DeclareArray(n, len, t) ==
    [tokenType |-> "Declaration", name |-> n, type |-> t, array |-> <<len>>]
Assign(n, v) ==
    [tokenType |-> "Assign", name |-> n, static |-> TRUE, index |-> 0, value |-> v]
AssignAt(n, k, v) ==
    [tokenType |-> "Assign", name |-> n, static |-> TRUE, index |-> k, value |-> v]
AssignDyn(n, e, v) ==
    [tokenType |-> "Assign", name |-> n, static |-> FALSE, index |-> e, value |-> v]
Show(v) == [tokenType |-> "Show", value |-> v]
Input(n) == [tokenType |-> "Input", variable |-> n]
Loop(c, b) == [tokenType |-> "Loop", condition |-> c, body |-> b]
If(c, b) == [tokenType |-> "If", condition |-> c, body |-> b]
Unsafe(size, b) == [tokenType |-> "Unsafe", safetySize |-> size, body |-> b]
Function(n, b) == [tokenType |-> "Function", name |-> n, body |-> b]
Call(n) == [tokenType |-> "Call", name |-> n]

UnsafeAdd(e) == [tokenType |-> "UnsafeAdd", amount |-> e]
UnsafeReduce(e) == [tokenType |-> "UnsafeReduce", amount |-> e]
UnsafeGoto(off) == [tokenType |-> "UnsafeGoto", loc |-> off]
UnsafeShow == [tokenType |-> "UnsafeShow"]
UnsafeLoop(b) == [tokenType |-> "UnsafeLoop", body |-> b]
Abstract(text) == [tokenType |-> "Abstract", bf |-> text]

----------------------------------------------------------------------------
(* memoryUsage: Map<number, details>, kept as the sequence of its entries  *)
(* in insertion order.  details is null (freed), undefined (temporary) or  *)
(* {variable: [name, index], type}.                                        *)

FreedCell == [kind |-> "null", name |-> "", index |-> 0, type |-> ""]
TemporaryCell == [kind |-> "undefined", name |-> "", index |-> 0, type |-> ""]
NamedCell(n, i, t) == [kind |-> "variable", name |-> n, index |-> i, type |-> t]

MapKeys(m) == {m[j].loc : j \in 1..Len(m)}

MapHas(m, k) == k \in MapKeys(m)

MapPos(m, k) == CHOOSE j \in 1..Len(m) : m[j].loc = k

\* Map.get: the details of key k; a missing key reads as undefined
MapGet(m, k) == IF MapHas(m, k) THEN m[MapPos(m, k)].details ELSE TemporaryCell

\* Map.set: an existing key keeps its place, a new key goes last
MapSet(m, k, d) ==
    IF MapHas(m, k)
    THEN [m EXCEPT ![MapPos(m, k)] = [loc |-> k, details |-> d]]
    ELSE Append(m, [loc |-> k, details |-> d])

\* Map.delete
MapDelete(m, k) == SelectSeq(m, LAMBDA e : e.loc # k)

\* the status of an address, as the data model names it
StatusOf(m, k) ==
    IF ~MapHas(m, k) THEN "Free"
    ELSE LET d == MapGet(m, k)
         IN  IF d.kind = "null" THEN "Free"
             ELSE IF d.kind = "undefined" THEN "Temporary" ELSE "Named"

----------------------------------------------------------------------------
(* The compiler's helper functions.  A function body is a sequence of      *)
(* statements over the module state; the state is the record ctx, and ret  *)
(* carries what a function returns.                                        *)

\* const c = v; F(c): v is computed once, before the statements that use it
Bind(v, F(_)) == CHOOSE r \in {F(c) : c \in {v}} : TRUE

NoPointer == <<>>

\* the builtin registered at module load
DumpBody == <<Unsafe(1, <<Abstract(<<"&">>)>>)>>

InitialFunctions == [n \in {"__dump"} |-> DumpBody]

\* append instructions; pointerLocation is left alone
emit(ctx, s) ==
    [ctx EXCEPT !.brainfuckCode = @ \o s,
                !.emittedAt = @ \o Rep(ctx.pointerLocation, Len(s))]

memSet(ctx, k, d) == [ctx EXCEPT !.memoryUsage = MapSet(@, k, d)]

throw(ctx, msg) == IF ctx.err = "" THEN [ctx EXCEPT !.err = msg] ELSE ctx

movePointerRight(ctx) ==
    [ctx EXCEPT !.pointerLocation = @ + 1,
                !.brainfuckCode = Append(@, ">"),
                !.emittedAt = Append(@, ctx.pointerLocation)]

movePointerLeft(ctx) ==
    [ctx EXCEPT !.pointerLocation = @ - 1,
                !.brainfuckCode = Append(@, "<"),
                !.emittedAt = Append(@, ctx.pointerLocation)]

RECURSIVE moveTo(_, _)
moveTo(ctx, locationIndex) ==
    IF ctx.pointerLocation < locationIndex
    THEN moveTo(movePointerRight(ctx), locationIndex)
    ELSE IF ctx.pointerLocation > locationIndex
         THEN moveTo(movePointerLeft(ctx), locationIndex)
         ELSE ctx

\* the scan of findEmptyLocation over the entries from position j on
RECURSIVE EmptyScan(_, _, _)
EmptyScan(m, j, lastOccupiedIndex) ==
    IF j > Len(m) THEN lastOccupiedIndex + 1
    ELSE IF m[j].details.kind # "null"
         THEN EmptyScan(m, j + 1, m[j].loc)
         ELSE m[j].loc

\* the number of keys as the answer, in place of the scan
FirstEmptyByCount(m) == Len(m)

FirstEmpty(m) == EmptyScan(m, 1, -1)

\* findEmptyLocation, its answer in ret; the answer is logged
findEmptyLocation(ctx) ==
    LET loc == FirstEmpty(ctx.memoryUsage)
    IN  [ctx EXCEPT !.ret = loc,
                    !.allocLog = Append(@, [fn |-> "findEmptyLocation",
                                            loc |-> loc, size |-> 1,
                                            status |-> <<StatusOf(ctx.memoryUsage, loc)>>,
                                            inRegion |-> loc \in ctx.reserved])]

\* const loc = findEmptyLocation(); memoryUsage.set(loc, undefined)
newTemporary(ctx) ==
    Bind(findEmptyLocation(ctx), LAMBDA c : memSet(c, c.ret, TemporaryCell))

clearCell(ctx) == emit(ctx, <<"[", "-", "]">>)

\* setValue without its clearCell
setValueNoClear(ctx, lit) ==
    emit(ctx,
         IF lit.value > 0 THEN Rep("+", lit.value)
         ELSE IF lit.vtype = "number" /\ lit.value < 0 THEN Rep("-", -lit.value)
         ELSE <<>>)

\* value is the literal's number (a string's char code, a boolean's 0 or 1)
setValue(ctx, lit) ==
    emit(clearCell(ctx),
         IF lit.value > 0 THEN Rep("+", lit.value)
         ELSE IF lit.vtype = "number" /\ lit.value < 0 THEN Rep("-", -lit.value)
         ELSE <<>>)

\* moveTo(from) [ moveTo(to) op moveTo(from) - ]
drain(ctx, from, to, op) ==
    LET c1 == emit(moveTo(ctx, from), <<"[">>)
        c2 == emit(moveTo(c1, to), <<op>>)
    IN  emit(moveTo(c2, from), <<"-", "]">>)

\* moveTo(cell) [-] memoryUsage.set(cell, null)
release(ctx, cell) == memSet(clearCell(moveTo(ctx, cell)), cell, FreedCell)

\* copy without the restore of the source
copyNoRestore(ctx, cell) ==
    Bind(newTemporary(moveTo(ctx, cell)), LAMBDA c1 :
    Bind(newTemporary(c1), LAMBDA c2 :
        LET location1 == c1.ret
            location2 == c2.ret
            c3 == emit(c2, <<"[">>)
            c4 == emit(moveTo(c3, location1), <<"+">>)
            c5 == emit(moveTo(c4, location2), <<"+">>)
            c6 == emit(moveTo(c5, cell), <<"-", "]">>)
        IN  [release(c6, location1) EXCEPT !.ret = location2]))

copy(ctx, cell) ==
    Bind(newTemporary(moveTo(ctx, cell)), LAMBDA c1 :
    Bind(newTemporary(c1), LAMBDA c2 :
        LET location1 == c1.ret
            location2 == c2.ret
            c3 == emit(c2, <<"[">>)
            c4 == emit(moveTo(c3, location1), <<"+">>)
            c5 == emit(moveTo(c4, location2), <<"+">>)
            c6 == emit(moveTo(c5, cell), <<"-", "]">>)
            c7 == drain(c6, location1, cell, "+")
        IN  [release(c7, location1) EXCEPT !.ret = location2]))

add(ctx, a, b) ==
    Bind(copy(ctx, a), LAMBDA c1 :
    Bind(copy(c1, b), LAMBDA c2 :
    Bind(newTemporary(c2), LAMBDA c3 :
        LET copiedA == c1.ret
            copiedB == c2.ret
            targetLocation == c3.ret
            c4 == drain(c3, copiedA, targetLocation, "+")
            c5 == drain(c4, copiedB, targetLocation, "+")
            c6 == release(c5, copiedA)
        IN  [release(c6, copiedB) EXCEPT !.ret = targetLocation])))

\* subtract without the freeing of its two copies
subtractKeepsCopies(ctx, a, b) ==
    Bind(newTemporary(ctx), LAMBDA c1 :
    Bind(copy(c1, a), LAMBDA c2 :
    Bind(copy(c2, b), LAMBDA c3 :
        LET targetLocation == c1.ret
            copiedA == c2.ret
            copiedB == c3.ret
            c4 == drain(c3, copiedA, targetLocation, "+")
        IN  [drain(c4, copiedB, targetLocation, "-") EXCEPT !.ret = targetLocation])))

subtract(ctx, a, b) ==
    Bind(newTemporary(ctx), LAMBDA c1 :
    Bind(copy(c1, a), LAMBDA c2 :
    Bind(copy(c2, b), LAMBDA c3 :
        LET targetLocation == c1.ret
            copiedA == c2.ret
            copiedB == c3.ret
            c4 == drain(c3, copiedA, targetLocation, "+")
            c5 == drain(c4, copiedB, targetLocation, "-")
            c6 == release(c5, copiedA)
        IN  [release(c6, copiedB) EXCEPT !.ret = targetLocation])))

\* the first entry, in insertion order, bound to (name, index); <<>> is undefined
findVariableLocation(m, name, index) ==
    LET hits == SelectSeq(m, LAMBDA e : e.details.kind = "variable"
                                        /\ e.details.name = name
                                        /\ e.details.index = index)
    IN  IF hits = <<>> THEN <<>> ELSE <<hits[1].loc>>

\* variables.keys(): the keys in the order they were first set
variableKeys(vs) ==
    [j \in 1..Cardinality(DOMAIN vs) |-> CHOOSE k \in DOMAIN vs : vs[k].order = j]

\* Map.set on variables: a key already there keeps its place, a new one goes last
keyPlace(vs, n) ==
    IF n \in DOMAIN vs THEN vs[n].order ELSE Cardinality(DOMAIN vs) + 1

\* String.prototype.toLowerCase over the letters names are written with
RECURSIVE toLowerCase(_)
toLowerCase(text) ==
    IF text = "" THEN ""
    ELSE LET ch == Head(text)
             upper == "ABCDEFGHIJKLMNOPQRSTUVWXYZ"
             lower == "abcdefghijklmnopqrstuvwxyz"
             at == {j \in 1..Len(upper) : SubSeq(upper, j, j) = ch}
         IN  (IF at = {} THEN ch
              ELSE LET j == CHOOSE j \in at : TRUE IN SubSeq(lower, j, j))
             \o toLowerCase(Tail(text))

\* dp[i][j] of levenshtein
RECURSIVE editDistance(_, _, _, _)
editDistance(a, b, i, j) ==
    IF j = 0 THEN i
    ELSE IF i = 0 THEN j
    ELSE LET cost == IF SubSeq(a, i, i) = SubSeq(b, j, j) THEN 0 ELSE 1
             up == editDistance(a, b, i - 1, j) + 1
             left == editDistance(a, b, i, j - 1) + 1
             diag == editDistance(a, b, i - 1, j - 1) + cost
             least == IF up <= left THEN up ELSE left
         IN  IF least <= diag THEN least ELSE diag

levenshtein(a, b) == editDistance(a, b, Len(a), Len(b))

\* candidates.add over the names of memoryUsage, from entry j on
RECURSIVE addCandidates(_, _, _)
addCandidates(candidates, m, j) ==
    IF j > Len(m) THEN candidates
    ELSE LET n == m[j].details.name
             seen == \E k \in 1..Len(candidates) : candidates[k] = n
         IN  addCandidates(IF m[j].details.kind = "variable" /\ ~seen
                           THEN Append(candidates, n) ELSE candidates,
                           m, j + 1)

\* the for loop of suggestVariableName from candidate j on; at is
\* <<best, bestDist>>, best "" for null and bestDist -1 for Infinity
RECURSIVE bestCandidate(_, _, _, _)
bestCandidate(name, candidates, j, at) ==
    IF j > Len(candidates) THEN at
    ELSE LET dist == levenshtein(toLowerCase(name), toLowerCase(candidates[j]))
         IN  bestCandidate(name, candidates, j + 1,
                           IF at[2] = -1 \/ dist < at[2]
                           THEN <<candidates[j], dist>> ELSE at)

\* the suggestion, "" for null
suggestVariableName(ctx, name) ==
    LET candidates == addCandidates(variableKeys(ctx.variables), ctx.memoryUsage, 1)
        at == bestCandidate(name, candidates, 1, <<"", -1>>)
    IN  IF at[1] # "" /\ at[2] <= 2 THEN at[1] ELSE ""

\* a message that is empty: nothing is thrown
variableNotFoundSilent(ctx, name) == ""

variableNotFoundMessage(ctx, name) ==
    LET suggestion == suggestVariableName(ctx, name)
    IN  IF suggestion # ""
        THEN "Variable " \o name \o " not declared. Did you mean '"
                 \o suggestion \o "'?"
        ELSE "Variable " \o name \o " not declared"

----------------------------------------------------------------------------
(* Expressions.                                                            *)

\* zeroTest leaving the flag set
zeroTestNoClear(ctx, comp, flag) ==
    emit(emit(moveTo(ctx, comp), <<"[">>), <<"-", "]">>)

\* moveTo(comp) [ moveTo(flag) [-] moveTo(comp) - ]
zeroTest(ctx, comp, flag) ==
    LET c1 == emit(moveTo(ctx, comp), <<"[">>)
        c2 == clearCell(moveTo(c1, flag))
    IN  emit(moveTo(c2, comp), <<"-", "]">>)

\* const flag = findEmptyLocation(); set(flag, undefined); moveTo(flag); setValue(1)
newFlag(ctx) ==
    Bind(newTemporary(ctx), LAMBDA c :
        [setValue(moveTo(c, c.ret), Lit(1)) EXCEPT !.ret = c.ret])

\* probe without the i decrements: every position tests the index against 0
probeUnshifted(ctx, idxCell, i) ==
    Bind(copy(ctx, idxCell), LAMBDA c :
        [moveTo(c, c.ret) EXCEPT !.ret = c.ret])

\* const comp2 = copy(idxCell); i times: moveTo(comp2) -
probe(ctx, idxCell, i) ==
    Bind(copy(ctx, idxCell), LAMBDA c :
        [emit(moveTo(c, c.ret), Rep("-", i)) EXCEPT !.ret = c.ret])

\* the gated read: [ copy(elem) into resultLoc, free the copy and the guard ]
gatedRead(ctx, guard, elem, resultLoc) ==
    Bind(copy(emit(moveTo(ctx, guard), <<"[">>), elem), LAMBDA c2 :
        LET copyOfElem == c2.ret
            c3 == drain(c2, copyOfElem, resultLoc, "+")
            c4 == release(c3, copyOfElem)
        IN  emit(release(c4, guard), <<"]">>))

\* one pass of the for loop of getVariableValueAtDynamicIndex
getAtIndexStep(ctx, i, base, idxCell, resultLoc) ==
    Bind(copy(ctx, idxCell), LAMBDA c1 :
    Bind(newFlag(c1), LAMBDA c2 :
    Bind(zeroTest(c2, c1.ret, c2.ret), LAMBDA c3 :
        LET comp == c1.ret
            flag == c2.ret
        IN  IF i > 0
            THEN Bind(probe(c3, idxCell, i), LAMBDA d1 :
                 Bind(newFlag(d1), LAMBDA d2 :
                     LET comp2 == d1.ret
                         flag2 == d2.ret
                         d3 == zeroTest(d2, comp2, flag2)
                         d4 == gatedRead(d3, flag2, base + i, resultLoc)
                     IN  release(release(d4, comp2), comp)))
            ELSE release(gatedRead(c3, flag, base + i, resultLoc), comp))))

RECURSIVE getAtIndexScan(_, _, _, _, _, _)
getAtIndexScan(ctx, i, len, base, idxCell, resultLoc) ==
    IF ctx.err # "" \/ i >= len THEN ctx
    ELSE getAtIndexScan(getAtIndexStep(ctx, i, base, idxCell, resultLoc),
                        i + 1, len, base, idxCell, resultLoc)

RECURSIVE evalValue(_, _)

getVariableValueAtDynamicIndex(ctx, name, indexExpr) ==
    IF name \notin DOMAIN ctx.variables
    THEN throw(ctx, variableNotFoundMessage(ctx, name))
    ELSE Bind(evalValue(ctx, indexExpr), LAMBDA c1 :
         IF c1.err # "" THEN c1
         ELSE Bind(newTemporary(c1), LAMBDA c2 :
              LET info == ctx.variables[name]
                  idxCell == c1.ret
                  resultLoc == c2.ret
              IN  [getAtIndexScan(c2, 0, info.length, info.base, idxCell, resultLoc)
                      EXCEPT !.ret = resultLoc]))

evalValue(ctx, val) ==
    IF ctx.err # "" THEN ctx
    ELSE IF val.tokenType = "Literal"
    THEN Bind(newTemporary(ctx), LAMBDA c :
             [setValue(moveTo(c, c.ret), val) EXCEPT !.ret = c.ret])
    ELSE IF val.tokenType = "Variable"
    THEN IF val.static
         THEN LET src == findVariableLocation(ctx.memoryUsage, val.name, val.index)
              IN  IF src = <<>> THEN throw(ctx, variableNotFoundMessage(ctx, val.name))
                  ELSE [ctx EXCEPT !.ret = src[1]]
         ELSE getVariableValueAtDynamicIndex(ctx, val.name, val.index)
    ELSE IF val.tokenType = "Math"
    THEN IF val.operator \in {"+", "-"}
         THEN Bind(evalValue(ctx, val.left), LAMBDA c1 :
              Bind(evalValue(c1, val.right), LAMBDA c2 :
                  IF c2.err # "" THEN c2
                  ELSE IF val.operator = "+" THEN add(c2, c1.ret, c2.ret)
                       ELSE subtract(c2, c1.ret, c2.ret)))
         ELSE throw(ctx, "Unsupported nested operator " \o val.operator)
    ELSE IF val.tokenType = "Max"
    THEN Bind(newTemporary(ctx), LAMBDA c :
             [emit(moveTo(c, c.ret), <<"[", "-", "]", "-">>) EXCEPT !.ret = c.ret])
    ELSE throw(ctx, "Unknown value token")

\* gatedWrite adding the value to the element's old contents
gatedWriteNoClear(ctx, guard, target, valueCell) ==
    Bind(copy(emit(moveTo(ctx, guard), <<"[">>), valueCell), LAMBDA c3 :
        LET copyOfValue == c3.ret
            c4 == drain(c3, copyOfValue, target, "+")
            c5 == release(c4, copyOfValue)
        IN  emit(release(c5, guard), <<"]">>))

\* the gated write: [ clear target, copy(valueCell) into it, free copy and guard ]
gatedWrite(ctx, guard, target, valueCell) ==
    Bind(copy(clearCell(moveTo(emit(moveTo(ctx, guard), <<"[">>), target)), valueCell),
         LAMBDA c3 :
        LET copyOfValue == c3.ret
            c4 == drain(c3, copyOfValue, target, "+")
            c5 == release(c4, copyOfValue)
        IN  emit(release(c5, guard), <<"]">>))

\* one pass of the for loop of setVariableAtDynamicIndex
setAtIndexStep(ctx, i, base, idxCell, valueCell) ==
    Bind(copy(ctx, idxCell), LAMBDA c1 :
    Bind(newFlag(c1), LAMBDA c2 :
    Bind(zeroTest(c2, c1.ret, c2.ret), LAMBDA c3 :
        LET comp == c1.ret
            flag2 == c2.ret
        IN  IF i > 0
            THEN Bind(probe(c3, idxCell, i), LAMBDA d1 :
                 Bind(newFlag(d1), LAMBDA d2 :
                     LET comp2 == d1.ret
                         flag3 == d2.ret
                         d3 == zeroTest(d2, comp2, flag3)
                         d4 == gatedWrite(d3, flag3, base + i, valueCell)
                     IN  release(release(d4, comp2), comp)))
            ELSE release(gatedWrite(c3, flag2, base + i, valueCell), comp))))

RECURSIVE setAtIndexScan(_, _, _, _, _, _)
setAtIndexScan(ctx, i, len, base, idxCell, valueCell) ==
    IF ctx.err # "" \/ i >= len THEN ctx
    ELSE setAtIndexScan(setAtIndexStep(ctx, i, base, idxCell, valueCell),
                        i + 1, len, base, idxCell, valueCell)

setVariableAtDynamicIndex(ctx, name, indexExpr, value) ==
    IF name \notin DOMAIN ctx.variables
    THEN throw(ctx, variableNotFoundMessage(ctx, name))
    ELSE Bind(evalValue(ctx, indexExpr), LAMBDA c1 :
         Bind(evalValue(c1, value), LAMBDA c2 :
         IF c2.err # "" THEN c2
         ELSE LET info == ctx.variables[name]
                  idxCell == c1.ret
                  valueCell == c2.ret
              IN  Bind(setAtIndexScan(c2, 0, info.length, info.base, idxCell, valueCell),
                       LAMBDA c3 :
                           IF MapGet(c3.memoryUsage, valueCell).kind = "undefined"
                           THEN release(c3, valueCell)
                           ELSE c3)))

----------------------------------------------------------------------------
(* Unsafe blocks.                                                          *)

\* Array.prototype.toString, as `brainfuckCode += token.bf` applies it:
\* the elements joined by commas
RECURSIVE JoinComma(_)
JoinComma(bf) ==
    IF Len(bf) <= 1 THEN bf
    ELSE <<Head(bf), ",">> \o JoinComma(Tail(bf))

unsafeDrain(ctx, amount, op) ==
    Bind(evalValue(ctx, amount), LAMBDA c1 :
    IF c1.err # "" THEN c1
    ELSE Bind(copy(c1, c1.ret), LAMBDA c2 :
         IF c2.unsafePointerLocation = NoPointer
         THEN throw(c2, "Unsafe pointer not initialized")
         ELSE drain(c2, c2.ret, c2.unsafePointerLocation[1], op)))

RECURSIVE compileUnsafe(_, _)

compileUnsafeToken(ctx, token) ==
    IF ctx.err # "" THEN ctx
    ELSE IF token.tokenType \in {"UnsafeAdd", "UnsafeReduce"}
    THEN unsafeDrain(ctx, token.amount,
                     IF token.tokenType = "UnsafeAdd" THEN "+" ELSE "-")
    ELSE IF token.tokenType = "Abstract" THEN emit(ctx, JoinComma(token.bf))
    ELSE IF token.tokenType \notin {"UnsafeGoto", "UnsafeShow", "UnsafeLoop"}
    THEN throw(ctx, "Unknown Unsafe token " \o token.tokenType)
    ELSE IF ctx.unsafePointerLocation = NoPointer
    THEN throw(ctx, "Unsafe pointer not initialized")
    ELSE IF token.tokenType = "UnsafeGoto"
    THEN LET target == ctx.unsafePointerLocation[1] + token.loc
         IN  [moveTo(ctx, target) EXCEPT !.unsafePointerLocation = <<target>>]
    ELSE IF token.tokenType = "UnsafeShow"
    THEN emit(moveTo(ctx, ctx.unsafePointerLocation[1]), <<".">>)
    ELSE Bind(compileUnsafe(emit(moveTo(ctx, ctx.unsafePointerLocation[1]), <<"[">>),
                            token.body),
              LAMBDA c2 :
                  IF c2.err # "" THEN c2
                  ELSE emit(moveTo(c2, c2.unsafePointerLocation[1]), <<"]">>))

compileUnsafe(ctx, tokens) ==
    IF ctx.err # "" \/ tokens = <<>> THEN ctx
    ELSE compileUnsafe(compileUnsafeToken(ctx, Head(tokens)), Tail(tokens))

\* the scan of findContiguousFreeRegion from start
RECURSIVE RegionScan(_, _, _)
RegionScan(used, start, size) ==
    LET hit == {i \in 0..(size - 1) : (start + i) \in used}
    IN  IF hit = {} THEN start
        ELSE RegionScan(used, start + (CHOOSE i \in hit : \A k \in hit : i <= k) + 1,
                        size)

\* the scan with only the live keys in the used set
FirstRegionOverFreed(m, size) ==
    RegionScan({a \in MapKeys(m) : StatusOf(m, a) # "Free"}, 0, size)

FirstRegion(m, size) == RegionScan(MapKeys(m), 0, size)

\* findContiguousFreeRegion, its answer in ret; the answer is logged
findContiguousFreeRegion(ctx, size) ==
    LET start == FirstRegion(ctx.memoryUsage, size)
    IN  [ctx EXCEPT !.ret = start,
                    !.allocLog = Append(@, [fn |-> "findContiguousFreeRegion",
                                            loc |-> start, size |-> size,
                                            status |-> [i \in 1..size |->
                                                StatusOf(ctx.memoryUsage, start + i - 1)],
                                            inRegion |-> FALSE])]

----------------------------------------------------------------------------
(* compile.                                                                *)

\* the reset block at the head of compile
resetContext(ctx) ==
    [ctx EXCEPT !.brainfuckCode = <<>>,
                !.emittedAt = <<>>,
                !.memoryUsage = <<>>,
                !.pointerLocation = 0,
                !.unsafePointerLocation = NoPointer,
                !.variables = <<>>]

VarSet(vs, n, info) ==
    [k \in DOMAIN vs \cup {n} |-> IF k = n THEN info ELSE vs[k]]

\* the for loop of an array declaration, from element i on
RECURSIVE declareElements(_, _, _, _)
declareElements(ctx, token, baseAddress, i) ==
    IF ctx.err # "" \/ i >= token.array[1] THEN ctx
    ELSE LET loc == baseAddress + i
             c1 == memSet(ctx, loc, NamedCell(token.name, i, token.type))
         IN  declareElements(clearCell(moveTo(c1, loc)), token, baseAddress, i + 1)

compileDeclaration(ctx, token) ==
    IF Len(token.array) = 1
    THEN Bind(findContiguousFreeRegion(ctx, token.array[1]), LAMBDA c1 :
             LET baseAddress == c1.ret
             IN  [declareElements(c1, token, baseAddress, 0) EXCEPT !.variables =
                     VarSet(@, token.name, [base |-> baseAddress,
                                            length |-> token.array[1],
                                            type |-> token.type,
                                            order |-> keyPlace(@, token.name)])])
    ELSE Bind(findEmptyLocation(ctx), LAMBDA c1 :
             LET locationIndex == c1.ret
             IN  [memSet(c1, locationIndex, NamedCell(token.name, 0, token.type))
                     EXCEPT !.variables =
                     VarSet(@, token.name, [base |-> locationIndex, length |-> 1,
                                            type |-> token.type,
                                            order |-> keyPlace(@, token.name)])])

\* the source cell of  set target variable, in ret
assignSource(ctx, value) ==
    IF value.static
    THEN LET src == findVariableLocation(ctx.memoryUsage, value.name, value.index)
         IN  IF src = <<>> THEN throw(ctx, variableNotFoundMessage(ctx, value.name))
             ELSE [ctx EXCEPT !.ret = src[1]]
    ELSE evalValue(ctx, value)

compileAssign(ctx, token) ==
    IF ~token.static
    THEN setVariableAtDynamicIndex(ctx, token.name, token.index, token.value)
    ELSE LET entryLoc == findVariableLocation(ctx.memoryUsage, token.name, token.index)
             targetLocation == entryLoc[1]
             value == token.value
         IN  IF entryLoc = <<>>
             THEN throw(ctx, variableNotFoundMessage(ctx, token.name))
             ELSE IF value.tokenType = "Literal"
             THEN setValue(moveTo(ctx, targetLocation), value)
             ELSE IF value.tokenType = "Variable"
             THEN Bind(assignSource(clearCell(moveTo(ctx, targetLocation)), value),
                       LAMBDA c2 :
                  IF c2.err # "" THEN c2
                  ELSE Bind(copy(moveTo(c2, c2.ret), c2.ret), LAMBDA c3 :
                            drain(c3, c3.ret, targetLocation, "+")))
             ELSE IF value.tokenType = "Math"
             THEN Bind(evalValue(ctx, value), LAMBDA c1 :
                  IF c1.err # "" THEN c1
                  ELSE drain(clearCell(moveTo(c1, targetLocation)), c1.ret,
                             targetLocation, "+"))
             ELSE IF value.tokenType = "Max"
             THEN emit(clearCell(moveTo(ctx, targetLocation)), <<"-">>)
             ELSE ctx

\* the switch of the Show branch: TRUE when the character output is emitted
showsAsChar(ctx, value) ==
    \/ /\ value.tokenType = "Variable"
       /\ IF value.static
          THEN LET loc == findVariableLocation(ctx.memoryUsage, value.name, value.index)
               IN  loc # <<>> /\ MapGet(ctx.memoryUsage, loc[1]).type = "char"
          ELSE value.name \in DOMAIN ctx.variables
               /\ ctx.variables[value.name].type = "char"
    \/ value.tokenType = "Literal" /\ value.vtype = "string"

compileShow(ctx, token) ==
    Bind(evalValue(ctx, token.value), LAMBDA c1 :
    IF c1.err # "" THEN c1
    ELSE Bind(moveTo(c1, c1.ret), LAMBDA c2 :
         emit(c2, IF showsAsChar(c2, token.value) THEN <<"~">> ELSE <<".">>)))

\* the condition cell of Loop and If, in ret
conditionCell(ctx, condition) ==
    IF condition.tokenType = "Variable" /\ condition.static
    THEN LET loc == findVariableLocation(ctx.memoryUsage, condition.name,
                                         condition.index)
         IN  IF loc = <<>> THEN throw(ctx, "woopsies")
             ELSE [ctx EXCEPT !.ret = loc[1]]
    ELSE evalValue(ctx, condition)

compileInput(ctx, token) ==
    LET entryLoc == findVariableLocation(ctx.memoryUsage, token.variable, 0)
    IN  \* `if (!entryLoc)`: undefined and the address 0 are both falsy
        IF entryLoc = <<>> \/ entryLoc = <<0>>
        THEN throw(ctx, variableNotFoundMessage(ctx, token.variable))
        ELSE emit(moveTo(ctx, entryLoc[1]), <<",">>)

\* the release loop of the Unsafe branch, from element i on
RECURSIVE releaseRegion(_, _, _, _)
releaseRegion(ctx, start, size, i) ==
    IF ctx.err # "" \/ i >= size THEN ctx
    ELSE LET c1 == [ctx EXCEPT !.memoryUsage = MapDelete(@, start + i)]
         IN  releaseRegion(clearCell(moveTo(c1, start + i)), start, size, i + 1)

\* the marking loop of the Unsafe branch, from element i on
RECURSIVE reserveRegion(_, _, _, _)
reserveRegion(ctx, start, size, i) ==
    IF ctx.err # "" \/ i >= size THEN ctx
    ELSE reserveRegion(memSet(ctx, start + i, FreedCell), start, size, i + 1)

compileUnsafeBlock(ctx, token) ==
    Bind(findContiguousFreeRegion(ctx, token.safetySize), LAMBDA c1 :
        LET start == c1.ret
            c2 == [reserveRegion(c1, start, token.safetySize, 0)
                      EXCEPT !.reserved = start..(start + token.safetySize - 1),
                             !.unsafePointerLocation = <<start>>]
        IN  Bind(compileUnsafe(moveTo(c2, start), token.body), LAMBDA c4 :
                 IF c4.err # "" THEN c4
                 ELSE [releaseRegion(c4, start, token.safetySize, 0)
                          EXCEPT !.unsafePointerLocation = NoPointer,
                                 !.reserved = {}]))

RECURSIVE compile(_, _, _)

\* a loop that clears its condition cell before the closing bracket
compileLoopOnce(ctx, token) ==
    Bind(conditionCell(ctx, token.condition), LAMBDA c1 :
    IF c1.err # "" THEN c1
    ELSE LET condCell == c1.ret
         IN  Bind(compile(emit(moveTo(c1, condCell), <<"[">>), token.body, FALSE),
                  LAMBDA c3 :
                      IF c3.err # "" THEN c3
                      ELSE emit(clearCell(moveTo(c3, condCell)), <<"]">>)))

\* an if that leaves its condition cell as the body left it
compileIfNoClear(ctx, token) ==
    Bind(conditionCell(ctx, token.condition), LAMBDA c1 :
    IF c1.err # "" THEN c1
    ELSE LET condCell == c1.ret
         IN  Bind(compile(emit(moveTo(c1, condCell), <<"[">>), token.body, FALSE),
                  LAMBDA c3 :
                      IF c3.err # "" THEN c3
                      ELSE emit(moveTo(c3, condCell), <<"]">>)))

compileLoop(ctx, token) ==
    Bind(conditionCell(ctx, token.condition), LAMBDA c1 :
    IF c1.err # "" THEN c1
    ELSE LET condCell == c1.ret
         IN  Bind(compile(emit(moveTo(c1, condCell), <<"[">>), token.body, FALSE),
                  LAMBDA c3 :
                      IF c3.err # "" THEN c3
                      ELSE emit(moveTo(c3, condCell), <<"]">>)))

compileIf(ctx, token) ==
    Bind(conditionCell(ctx, token.condition), LAMBDA c1 :
    IF c1.err # "" THEN c1
    ELSE LET condCell == c1.ret
         IN  Bind(compile(emit(moveTo(c1, condCell), <<"[">>), token.body, FALSE),
                  LAMBDA c3 :
                      IF c3.err # "" THEN c3
                      ELSE emit(clearCell(moveTo(c3, condCell)), <<"]">>)))

\* a Function statement that records nothing
compileFunctionForgets(ctx, token) == ctx

compileFunction(ctx, token) ==
    [ctx EXCEPT !.functions = VarSet(@, token.name, token.body)]

\* brainfuckCode += compile(funcCode): the left operand is read before the call,
\* and the call, made without its second argument, resets the context
compileCall(ctx, token) ==
    IF token.name \notin DOMAIN ctx.functions
    THEN throw(ctx, "Function " \o token.name \o " not defined")
    ELSE Bind(compile(ctx, ctx.functions[token.name], TRUE), LAMBDA c1 :
         IF c1.err # "" THEN c1
         ELSE [c1 EXCEPT !.brainfuckCode = ctx.brainfuckCode \o c1.brainfuckCode,
                         !.emittedAt = ctx.emittedAt \o c1.emittedAt])

compileToken(ctx, token) ==
    IF ctx.err # "" THEN ctx
    ELSE IF token.tokenType = "Declaration" THEN compileDeclaration(ctx, token)
    ELSE IF token.tokenType = "Assign" THEN compileAssign(ctx, token)
    ELSE IF token.tokenType = "Show" THEN compileShow(ctx, token)
    ELSE IF token.tokenType = "Loop" THEN compileLoop(ctx, token)
    ELSE IF token.tokenType = "Input" THEN compileInput(ctx, token)
    ELSE IF token.tokenType = "If" THEN compileIf(ctx, token)
    ELSE IF token.tokenType = "Unsafe" THEN compileUnsafeBlock(ctx, token)
    ELSE IF token.tokenType = "Function" THEN compileFunction(ctx, token)
    ELSE IF token.tokenType = "Call" THEN compileCall(ctx, token)
    ELSE throw(ctx, "Unhandled token type " \o token.tokenType)

RECURSIVE compileEach(_, _)
compileEach(ctx, code) ==
    IF ctx.err # "" \/ code = <<>> THEN ctx
    ELSE compileEach(compileToken(ctx, Head(code)), Tail(code))

compile(ctx, code, reset) ==
    compileEach(IF reset THEN resetContext(ctx) ELSE ctx, code)

----------------------------------------------------------------------------
(* The executor: brainfuck(code, {input, useNumberInputs, bits}).          *)

\* `${mem[dp]}`: the decimal text of a cell, as character codes
RECURSIVE Decimal(_)
Decimal(n) ==
    IF n < 10 THEN <<48 + n>> ELSE Decimal(n \div 10) \o <<48 + (n % 10)>>

\* a cell never written holds the 0 the array was filled with
Cell(mem, dp) == IF dp \in DOMAIN mem THEN mem[dp] ELSE 0

Store(mem, dp, v) == [a \in DOMAIN mem \cup {dp} |-> IF a = dp THEN v ELSE mem[a]]

\* the instruction at ip (ip counts from 0)
Instruction(code, ip) == code[ip + 1]

\* one pass of the while loop of "[": <<ip, loopCount>> after it
ForwardStep(code, ip, loopCount) ==
    LET char == Instruction(code, ip + 1)
    IN  <<ip + 1, IF char = "[" THEN loopCount + 1
                  ELSE IF char = "]" THEN loopCount - 1 ELSE loopCount>>

\* the while loop of "[" from <<ip, loopCount>>, run over at most `budget`
\* instructions: <<ip, loopCount>> where it stops.  Each pass is bound by
\* a quantifier, so that it is computed once.
RECURSIVE ForwardRun(_, _, _)
ForwardRun(code, at, budget) ==
    IF at[2] = 0 \/ budget = 0 \/ at[1] + 1 >= Len(code) THEN at
    ELSE CHOOSE r \in {ForwardRun(code, next, b) :
                          next \in {ForwardStep(code, at[1], at[2])},
                          b \in {budget - 1}} : TRUE

\* the while loop of "[": ip of the matching "]", or -1 when ip runs off the code
RECURSIVE ScanForward(_, _)
ScanForward(code, at) ==
    IF at[2] = 0 THEN at[1]
    ELSE IF at[1] + 1 >= Len(code) THEN -1
    ELSE CHOOSE r \in {ScanForward(code, next) :
                          next \in {ForwardRun(code, at, 64)}} : TRUE

\* one pass of the while loop of "]"
BackwardStep(code, ip, loopCount) ==
    LET char == Instruction(code, ip - 1)
    IN  <<ip - 1, IF char = "]" THEN loopCount + 1
                  ELSE IF char = "[" THEN loopCount - 1 ELSE loopCount>>

\* the while loop of "]", run over at most `budget` instructions
RECURSIVE BackwardRun(_, _, _)
BackwardRun(code, at, budget) ==
    IF at[2] = 0 \/ budget = 0 \/ at[1] - 1 < 0 THEN at
    ELSE CHOOSE r \in {BackwardRun(code, next, b) :
                          next \in {BackwardStep(code, at[1], at[2])},
                          b \in {budget - 1}} : TRUE

\* the while loop of "]": ip of the matching "[", or -1 when ip runs below 0
RECURSIVE ScanBackward(_, _)
ScanBackward(code, at) ==
    IF at[2] = 0 THEN at[1]
    ELSE IF at[1] - 1 < 0 THEN -1
    ELSE CHOOSE r \in {ScanBackward(code, next) :
                          next \in {BackwardRun(code, at, 64)}} : TRUE

Increment(cell, bits) == (cell + 1) % bits

Decrement(cell, bits) == (cell - 1 + bits) % bits

Operations == {">", "<", "+", "-", ".", "~", ",", "[", "]"}

----------------------------------------------------------------------------
(* The programs and options the checked runs draw from.                    *)

Prefix(pre) ==
    IF pre = 0 THEN <<>>
    ELSE <<Declare("p", "number"), Assign("p", Lit(1)), Show(Lit(2))>>

PrefixOutput(pre) == IF pre = 0 THEN <<>> ELSE Decimal(2)

\* show 1: the mark a body leaves in the output each time it runs
Mark == Show(Lit(1))

MarkText == Decimal(1)

Marks(k) == [j \in 1..k |-> MarkText[1]]

\* set b a
CopyProgram(p) ==
    Prefix(p.pre) \o
    <<Declare("a", "number"), Declare("b", "number"),
      Assign("a", Lit(p.v)), Assign("b", Lit(p.w)), Assign("b", Var("a"))>>

\* if cond { body }
IfBody(p) ==
    IF p.form = 1 THEN <<Assign("c", Lit(p.w)), Mark>>
    ELSE IF p.form = 2
    THEN <<Mark, Assign("c", MathTok("+", Var("c"), Lit(1)))>>
    ELSE <<Mark>>

IfCondition(p) ==
    IF p.form = 3 THEN MathTok("+", Var("c"), Lit(0)) ELSE Var("c")

IfProgram(p) ==
    Prefix(p.pre) \o
    <<Declare("c", "number"), Assign("c", Lit(p.v)), If(IfCondition(p), IfBody(p))>>

\* loop c { body }, the body taking one from c
LoopBody(p) ==
    IF p.form = 0
    THEN <<Mark, Assign("c", MathTok("-", Var("c"), Lit(1)))>>
    ELSE <<Assign("c", MathTok("-", Var("c"), Lit(1))), Mark>>

LoopProgram(p) ==
    Prefix(p.pre) \o
    <<Declare("c", "number"), Assign("c", Lit(p.v)), Loop(Var("c"), LoopBody(p))>>

\* set a[e] v ; show a[e], the index expression e evaluating to p.i
IndexExpr(p) ==
    IF p.form = 0 THEN Var("i")
    ELSE IF p.form = 1 THEN MathTok("-", Var("i"), Lit(1))
    ELSE MathTok("+", Var("i"), Lit(1))

IndexSeed(p) ==
    IF p.form = 0 THEN p.i ELSE IF p.form = 1 THEN p.i + 1 ELSE p.i - 1

DynProgram(p) ==
    Prefix(p.pre) \o
    <<DeclareArray("a", p.n, "number"), Declare("i", "number")>> \o
    [k \in 1..p.n |-> AssignAt("a", k - 1, Lit(p.w))] \o
    <<Assign("i", Lit(IndexSeed(p))),
      AssignDyn("a", IndexExpr(p), Lit(p.v)),
      Show(VarDyn("a", IndexExpr(p)))>>

\* the loop-driven dynamic write, then show a[i]
LoopDynProgram(p) ==
    <<DeclareArray("a", p.n, "number"), Declare("counter", "number"),
      Assign("counter", Lit(p.n)),
      Loop(Var("counter"),
           <<Assign("counter", MathTok("-", Var("counter"), Lit(1))),
             AssignDyn("a", Var("counter"), Var("counter"))>>),
      Show(IF p.form = 0 THEN VarAt("a", p.i) ELSE VarDyn("a", Lit(p.i)))>>

\* P ; function f { B } ; $f
CallPrefix(p) ==
    IF p.pre = 2
    THEN <<Declare("x", "number"), Declare("y", "number"), Assign("y", Lit(p.v))>>
    ELSE Prefix(p.pre)

CallBody(p) ==
    IF p.form = 0 THEN <<Show(Lit(p.v))>>
    ELSE IF p.form = 1
    THEN <<Declare("z", "number"), Assign("z", Lit(p.v)), Show(Var("z"))>>
    ELSE IF p.form = 2 THEN <<Show(Var("p"))>>
    ELSE IF p.form = 3 THEN DumpBody
    ELSE <<Declare("z", "number"), Declare("w", "number"), Assign("w", Lit(p.v)),
           Show(Var("z"))>>

CallProgram(p) == CallPrefix(p) \o <<Function("f", CallBody(p)), Call("f")>>

InlinedProgram(p) == CallPrefix(p) \o CallBody(p)

\* the statements an allocator run picks from
Pool ==
    <<Declare("x", "number"),
      Declare("y", "char"),
      DeclareArray("a", 2, "number"),
      Show(Lit(1)),
      Unsafe(1, <<UnsafeAdd(Lit(1)), UnsafeShow>>),
      Unsafe(2, <<UnsafeAdd(Lit(1)), UnsafeGoto(1), UnsafeReduce(Lit(1))>>)>>

AllocProgram(p) == [k \in 1..Len(p.picks) |-> Pool[p.picks[k]]]

\* define x ; set x v ; show x, after other statements (pre = 4: inside a
\* function called after them).  form: 0 number x, number literal; 1 char x,
\* number literal; 2 char x, string literal; 3 number x, string literal
ShowProgram(p) ==
    LET triple == <<Declare("x", IF p.form \in {1, 2} THEN "char" ELSE "number"),
                    Assign("x", IF p.form \in {2, 3} THEN CharLit(p.v) ELSE Lit(p.v)),
                    Show(Var("x"))>>
        before ==
            IF p.pre = 0 THEN <<>>
            ELSE IF p.pre = 2
            THEN <<DeclareArray("a", 2, "number"), Declare("y", "char"),
                   Assign("y", Lit(1))>>
            ELSE IF p.pre = 3 THEN <<Unsafe(1, <<UnsafeAdd(Lit(1)), UnsafeShow>>)>>
            ELSE IF p.pre = 5 THEN Prefix(1) \o <<Function("g", <<Mark>>), Call("g")>>
            ELSE Prefix(1)
    IN  IF p.pre = 4 THEN before \o <<Function("f", triple), Call("f")>>
        ELSE before \o triple

\* the names a failing statement mentions, and the declarations before it
UndeclaredName(p) == <<"cmt", "ad", "cnt", "zzzzzz">>[p.v]

\* declarations, then one statement that cannot be compiled, then show 1
ErrorProgram(p) ==
    LET u == UndeclaredName(p)
        bogus == [tokenType |-> "Bogus"]
        declared ==
            <<Declare("target", "number"), Assign("target", Lit(1))>> \o
            (IF p.pre = 1 THEN <<Declare("cnt", "number"), DeclareArray("arr", 2, "number")>>
             ELSE IF p.pre = 2 THEN <<Declare("ab", "number"), Declare("ac", "char")>>
             ELSE IF p.pre = 3 THEN <<Declare("Cnt", "number")>>
             ELSE <<>>)
        failing ==
            <<Show(Var(u)),
              Assign(u, Lit(1)),
              Assign("target", Var(u)),
              Input(u),
              Loop(Var(u), <<Mark>>),
              If(Var(u), <<Mark>>),
              Show(VarDyn(u, Var("target"))),
              AssignDyn(u, Var("target"), Lit(1)),
              Show(MathTok("+", Var("target"), Var(u))),
              Unsafe(1, <<UnsafeAdd(Var(u))>>),
              Loop(Var("target"), <<Show(Var(u))>>),
              Show(MathTok("*", Var("target"), Lit(2))),
              Assign("target", MathTok("/", Var("target"), Lit(2))),
              Call("nofn"),
              bogus,
              If(Var("target"), <<bogus>>),
              Unsafe(1, <<bogus>>),
              Function("f", <<Show(Var(u))>>)>>[p.form]
    IN  declared \o <<failing>>
        \o (IF p.form = 18 THEN <<Call("f")>> ELSE <<>>) \o <<Mark>>

Program(p) ==
    IF p.kind = "copy" THEN CopyProgram(p)
    ELSE IF p.kind = "error" THEN ErrorProgram(p)
    \* n consecutive subtractions over the scalars x and y
    ELSE IF p.kind = "sub"
    THEN Prefix(p.pre) \o <<Declare("x", "number"), Declare("y", "number")>>
         \o [k \in 1..p.n |->
                IF p.form = 0 THEN Assign("x", MathTok("-", Var("x"), Var("y")))
                ELSE IF p.form = 1 THEN Show(MathTok("-", Var("x"), Var("y")))
                ELSE Assign("x", MathTok("-", Var("x"), Lit(1)))]
    \* one unsafe block of one cell that adds to or reduces its cell, after
    \* x = v and m = bits - 1 were stored and pre statements were compiled
    \* (pre = 3: the block is the whole program)
    ELSE IF p.kind = "unsafe"
    THEN (IF p.pre = 0 THEN <<>>
          ELSE IF p.pre = 1 THEN Prefix(1)
          ELSE IF p.pre = 2
          THEN <<Declare("p", "number"), Assign("p", Lit(1)),
                 Declare("q", "number"), Assign("q", Var("p"))>>
          ELSE <<>>)
         \o (IF p.pre = 3 THEN <<>>
              ELSE <<Declare("x", "number"), Assign("x", Lit(p.v)),
                     Declare("m", "number"), Assign("m", Lit(p.bits - 1))>>)
         \o <<Unsafe(1,
                <<<<UnsafeAdd(Lit(p.v)), UnsafeShow>>,
                  <<UnsafeShow, UnsafeAdd(Lit(p.v)), UnsafeShow>>,
                  <<UnsafeShow, UnsafeAdd(Var("x")), UnsafeShow>>,
                  <<UnsafeShow, UnsafeAdd(MathTok("+", Var("x"), Lit(1))), UnsafeShow>>,
                  <<UnsafeAdd(Var("m")), UnsafeShow, UnsafeReduce(Lit(p.v)),
                    UnsafeShow>>,
                  <<UnsafeAdd(Var("m")), UnsafeShow, UnsafeReduce(Var("x")),
                    UnsafeShow>>>>[p.form + 1])>>
    \* unsafe 1 { abstract c1 .. cn end }, the characters picked from + - .
    ELSE IF p.kind = "abstract"
    THEN Prefix(p.pre)
         \o <<Unsafe(1, <<Abstract([k \in 1..Len(p.picks) |->
                                       <<"+", "-", ".">>[p.picks[k]]])>>)>>
    \* unsafe n { goto i show goto w show }
    ELSE IF p.kind = "goto"
    THEN Prefix(p.pre)
         \o <<Unsafe(p.n, <<UnsafeGoto(p.i), UnsafeShow, UnsafeGoto(p.w), UnsafeShow>>)>>
    \* a name declared twice, then referred to
    ELSE IF p.kind = "redecl"
    THEN Prefix(p.pre)
         \o << <<Declare("x", "number"), Declare("x", "number"),
                 Assign("x", Lit(p.v)), Show(Var("x"))>>,
               <<Declare("x", "number"), Declare("x", "char"),
                 Assign("x", Lit(p.v)), Show(Var("x"))>>,
               <<DeclareArray("a", 2, "number"), Declare("i", "number"),
                 DeclareArray("a", 2, "number"),
                 AssignDyn("a", Var("i"), Lit(p.v)), Show(VarAt("a", 0))>>,
               <<DeclareArray("a", 2, "number"), Declare("i", "number"),
                 DeclareArray("a", 2, "number"),
                 AssignAt("a", 0, Lit(p.v)), Show(VarDyn("a", Var("i")))>>,
               <<Declare("p", "number"), Declare("x", "number"),
                 Declare("x", "number"), Input("x")>>,
               <<DeclareArray("a", 2, "number"), Declare("i", "number"),
                 DeclareArray("a", 2, "number"),
                 AssignDyn("a", Var("i"), Lit(p.v)),
                 Show(VarDyn("a", Var("i")))>> >>[p.form + 1]
    \* define x ; set x v ; show x ; define y ; set y x ; show y  with $__dump
    \* put before statement i + 1 (i = 6: at the end; i = 7: no call)
    ELSE IF p.kind = "dump"
    THEN LET base == <<Declare("x", "number"), Assign("x", Lit(p.v)), Show(Var("x")),
                       Declare("y", "number"), Assign("y", Var("x")), Show(Var("y"))>>
         IN  IF p.i > Len(base) THEN base
             ELSE SubSeq(base, 1, p.i) \o <<Call("__dump")>>
                  \o SubSeq(base, p.i + 1, Len(base))
    \* set t e ; show t  where e mentions t or another variable
    ELSE IF p.kind = "self"
    THEN Prefix(p.pre)
         \o << <<Declare("a", "number"), Assign("a", Lit(p.v)),
                 Assign("a", Var("a")), Show(Var("a"))>>,
               <<DeclareArray("a", 2, "number"), Declare("i", "number"),
                 AssignAt("a", 1, Lit(p.v)), Assign("i", Lit(1)),
                 Assign("i", VarDyn("a", Var("i"))), Show(Var("i"))>>,
               <<Declare("a", "number"), Assign("a", Lit(p.v)),
                 Assign("a", MathTok("+", Var("a"), Lit(1))), Show(Var("a"))>>,
               <<Declare("a", "number"), Declare("b", "number"),
                 Assign("a", Lit(p.v)), Assign("b", Lit(1)),
                 Assign("b", Var("a")), Show(Var("b"))>>,
               <<DeclareArray("a", 2, "number"), Declare("i", "number"),
                 Declare("t", "number"),
                 AssignAt("a", 1, Lit(p.v)), Assign("i", Lit(1)),
                 Assign("t", VarDyn("a", Var("i"))), Show(Var("t"))>> >>[p.form + 1]
    \* loop c { S ; set c (c - 1) }, c = v, S a show or a set and show of an
    \* addition, a subtraction or a dynamic-index read (a[0] = 2, i = 0)
    ELSE IF p.kind = "iter"
    THEN Prefix(p.pre)
         \o <<Declare("c", "number"), Assign("c", Lit(p.v)),
               DeclareArray("a", 2, "number"), AssignAt("a", 0, Lit(2)),
               Declare("i", "number"), Declare("x", "number"),
               Loop(Var("c"),
                    << <<Show(MathTok("+", Var("c"), Lit(1)))>>,
                       <<Show(MathTok("-", Var("c"), Lit(1)))>>,
                       <<Show(VarDyn("a", Var("i")))>>,
                       <<Assign("x", MathTok("+", Var("c"), Lit(1))), Show(Var("x"))>>,
                       <<Assign("x", MathTok("-", Var("c"), Lit(1))), Show(Var("x"))>>,
                       <<Assign("x", VarDyn("a", Var("i"))), Show(Var("x"))>> >>[p.form + 1]
                    \o <<Assign("c", MathTok("-", Var("c"), Lit(1)))>>)>>
    \* a[k] = k + 1 for every k ; i = p.i ; v = p.v ; one dynamic access by i
    ELSE IF p.kind = "frame"
    THEN Prefix(p.pre)
         \o <<DeclareArray("a", p.n, "number"), Declare("i", "number"),
              Declare("v", "number")>>
         \o [k \in 1..p.n |-> AssignAt("a", k - 1, Lit(k))]
         \o <<Assign("i", Lit(p.i)), Assign("v", Lit(p.v))>>
         \o (IF p.form = 0 THEN <<AssignDyn("a", Var("i"), Var("v"))>>
             ELSE IF p.form = 1
             THEN <<Assign("v", VarDyn("a", Var("i"))), Show(Var("v"))>>
             ELSE <<Show(VarDyn("a", Var("i")))>>)
    \* a loop over the cell under the unsafe pointer
    ELSE IF p.kind = "uloop"
    THEN Prefix(p.pre)
         \o <<Unsafe(p.n, <<UnsafeAdd(Lit(p.v)),
                            UnsafeLoop(
                                IF p.form = 0 THEN <<UnsafeReduce(Lit(1))>>
                                ELSE IF p.form = 1
                                THEN <<UnsafeShow, UnsafeReduce(Lit(1))>>
                                ELSE IF p.form = 2
                                THEN <<UnsafeGoto(p.i), UnsafeGoto(p.w)>>
                                ELSE <<UnsafeReduce(Lit(1)), UnsafeGoto(p.i),
                                       UnsafeShow, UnsafeGoto(p.w)>>),
                            UnsafeShow>>)>>
    \* two compilations in one process: program i, then (n = 0) program w
    ELSE IF p.kind = "again"
    THEN << <<Function("f", <<Mark>>)>>,
            <<Call("f")>>,
            <<Declare("x", "number"), Assign("x", Lit(p.v)), Show(Var("x"))>>,
            <<Show(Var("x"))>>,
            <<Unsafe(1, <<UnsafeGoto(1), UnsafeAdd(Var("zz"))>>)>>,
            <<Function("f", <<Show(Lit(2))>>), Call("f")>> >>[
                IF p.n = 0 THEN p.w ELSE p.i]
    \* definitions and calls of f and g in several orders
    ELSE IF p.kind = "registry"
    THEN << <<Function("f", <<Mark>>), Call("f")>>,
            <<Call("f"), Function("f", <<Mark>>)>>,
            <<Function("g", <<Call("f")>>), Function("f", <<Mark>>), Call("g")>>,
            <<Function("g", <<Call("f")>>), Call("g"), Function("f", <<Mark>>)>>,
            <<Function("f", <<Mark>>), Call("g")>>,
            <<Function("g", <<Function("f", <<Mark>>)>>), Call("g"), Call("f")>>,
            <<Function("g", <<Function("f", <<Mark>>)>>), Call("f")>>,
            <<Function("f", <<Mark>>), Call("f"), Call("f")>>,
            <<Function("f", <<Mark>>), Function("g", <<Call("f"), Call("f")>>),
              Call("g"), Call("f")>> >>[p.form]
         \o Prefix(p.pre)
    ELSE IF p.kind = "show" THEN ShowProgram(p)
    \* pre scalars, then  define x ; input x
    ELSE IF p.kind = "input"
    THEN [k \in 1..p.pre |-> Declare(<<"p", "q">>[k], "number")]
         \o <<Declare("x", "number"), Input("x")>>
    ELSE IF p.kind = "call" THEN CallProgram(p)
    ELSE IF p.kind = "alloc" THEN AllocProgram(p)
    ELSE IF p.kind = "if" THEN IfProgram(p)
    ELSE IF p.kind = "loop" THEN LoopProgram(p)
    ELSE IF p.kind = "dyn" THEN DynProgram(p)
    ELSE IF p.kind = "loopdyn" THEN LoopDynProgram(p)
    ELSE <<>>

Params(kind, n, i, v, w, form, pre, bits) ==
    [kind |-> kind, n |-> n, i |-> i, v |-> v, w |-> w, form |-> form,
     pre |-> pre, bits |-> bits, picks |-> <<>>, input |-> <<>>,
     useNumberInputs |-> FALSE]

----------------------------------------------------------------------------
(* The state machine: compile visits the tokens one by one, then the       *)
(* executor runs the returned code one instruction at a time.              *)

Context ==
    [brainfuckCode |-> brainfuckCode, emittedAt |-> emittedAt,
     memoryUsage |-> memoryUsage, variables |-> variables,
     pointerLocation |-> pointerLocation, functions |-> functions,
     unsafePointerLocation |-> unsafePointerLocation,
     allocLog |-> allocLog, reserved |-> reserved, ret |-> 0, err |-> ""]

Commit(c) ==
    /\ brainfuckCode' = c.brainfuckCode
    /\ emittedAt' = c.emittedAt
    /\ memoryUsage' = c.memoryUsage
    /\ variables' = c.variables
    /\ pointerLocation' = c.pointerLocation
    /\ functions' = c.functions
    /\ unsafePointerLocation' = c.unsafePointerLocation
    /\ allocLog' = c.allocLog
    /\ reserved' = c.reserved
    /\ thrown' = c.err
    /\ phase' = IF c.err # "" THEN "failed" ELSE "compiling"

InitState(p) ==
    /\ params = p
    /\ phase = "idle"
    /\ rest = <<>>
    /\ thrown = ""
    /\ brainfuckCode = <<>>
    /\ emittedAt = <<>>
    /\ memoryUsage = <<>>
    /\ variables = <<>>
    /\ pointerLocation = 0
    /\ functions = InitialFunctions
    /\ unsafePointerLocation = NoPointer
    /\ allocLog = <<>>
    /\ reserved = {}
    /\ memory = <<>>
    /\ dataPointer = 0
    /\ instructionPointer = 0
    /\ output = <<>>
    /\ inputPointer = 0

\* compile(code) is called: the reset block runs
CompileBegin ==
    /\ phase = "idle"
    /\ Commit(resetContext(Context))
    /\ rest' = Program(params)
    /\ UNCHANGED <<params, executorVars>>

Visit(tokenType, c) ==
    /\ phase = "compiling"
    /\ rest # <<>>
    /\ Head(rest).tokenType = tokenType
    /\ Commit(c)
    /\ rest' = Tail(rest)
    /\ UNCHANGED <<params, executorVars>>

DeclarationStep == Visit("Declaration", compileDeclaration(Context, Head(rest)))
AssignStep == Visit("Assign", compileAssign(Context, Head(rest)))
ShowStep == Visit("Show", compileShow(Context, Head(rest)))
LoopStep == Visit("Loop", compileLoop(Context, Head(rest)))
InputStep == Visit("Input", compileInput(Context, Head(rest)))
IfStep == Visit("If", compileIf(Context, Head(rest)))
UnsafeStep == Visit("Unsafe", compileUnsafeBlock(Context, Head(rest)))
FunctionStep == Visit("Function", compileFunction(Context, Head(rest)))
CallStep == Visit("Call", compileCall(Context, Head(rest)))

\* compile is called again in the same process, on the next program of the
\* run: the reset block runs on the state the earlier call left
CompileAgain ==
    /\ phase \in {"compiled", "failed"}
    /\ params.kind = "again" /\ params.n > 0
    /\ params' = [params EXCEPT !.n = @ - 1]
    /\ Commit(resetContext(Context))
    /\ rest' = Program(params')
    /\ UNCHANGED executorVars

\* the else branch of compile: a token of no known type
UnhandledStep ==
    /\ rest # <<>>
    /\ Head(rest).tokenType \notin {"Declaration", "Assign", "Show", "Loop", "Input",
                                     "If", "Unsafe", "Function", "Call"}
    /\ Visit(Head(rest).tokenType,
             throw(Context, "Unhandled token type " \o Head(rest).tokenType))

\* forEach is over: compile returns brainfuckCode
CompileEnd ==
    /\ phase = "compiling"
    /\ rest = <<>>
    /\ phase' = "compiled"
    /\ UNCHANGED <<params, rest, thrown, compilerVars, executorVars>>

\* brainfuck(code, options) is called on the returned code
Run ==
    /\ phase = "compiled"
    /\ phase' = "running"
    /\ memory' = <<>>
    /\ dataPointer' = 0
    /\ instructionPointer' = 0
    /\ output' = <<>>
    /\ inputPointer' = 0
    /\ UNCHANGED <<params, rest, thrown, compilerVars>>

At(op) ==
    /\ phase = "running"
    /\ instructionPointer < Len(brainfuckCode)
    /\ Instruction(brainfuckCode, instructionPointer) = op

Keep == UNCHANGED <<params, phase, rest, thrown, compilerVars>>

OpRight ==
    /\ At(">")
    /\ dataPointer' = (dataPointer + 1) % memorySize
    /\ instructionPointer' = instructionPointer + 1
    /\ Keep /\ UNCHANGED <<memory, output, inputPointer>>

OpLeft ==
    /\ At("<")
    /\ dataPointer' = (dataPointer - 1 + memorySize) % memorySize
    /\ instructionPointer' = instructionPointer + 1
    /\ Keep /\ UNCHANGED <<memory, output, inputPointer>>

OpPlus ==
    /\ At("+")
    /\ memory' = Store(memory, dataPointer,
                       Increment(Cell(memory, dataPointer), params.bits))
    /\ instructionPointer' = instructionPointer + 1
    /\ Keep /\ UNCHANGED <<dataPointer, output, inputPointer>>

OpMinus ==
    /\ At("-")
    /\ memory' = Store(memory, dataPointer,
                       Decrement(Cell(memory, dataPointer), params.bits))
    /\ instructionPointer' = instructionPointer + 1
    /\ Keep /\ UNCHANGED <<dataPointer, output, inputPointer>>

OpDot ==
    /\ At(".")
    /\ Len(output) < MaxOutput
    /\ output' = output \o Decimal(Cell(memory, dataPointer))
    /\ instructionPointer' = instructionPointer + 1
    /\ Keep /\ UNCHANGED <<memory, dataPointer, inputPointer>>

OpTilde ==
    /\ At("~")
    /\ Len(output) < MaxOutput
    /\ output' = Append(output, Cell(memory, dataPointer))
    /\ instructionPointer' = instructionPointer + 1
    /\ Keep /\ UNCHANGED <<memory, dataPointer, inputPointer>>

OpComma ==
    /\ At(",")
    /\ IF inputPointer < Len(params.input)
       THEN /\ memory' = Store(memory, dataPointer,
                               IF params.useNumberInputs
                               THEN params.input[inputPointer + 1] - 48
                               ELSE params.input[inputPointer + 1])
            /\ inputPointer' = inputPointer + 1
       ELSE /\ memory' = Store(memory, dataPointer, 0)
            /\ inputPointer' = inputPointer
    /\ instructionPointer' = instructionPointer + 1
    /\ Keep /\ UNCHANGED <<dataPointer, output>>

Jump(target) ==
    IF target = -1
    THEN /\ phase' = "crashed"
         /\ thrown' = "Unmatched bracket"
         /\ UNCHANGED <<instructionPointer>>
    ELSE /\ instructionPointer' = target + 1
         /\ UNCHANGED <<phase, thrown>>

OpOpen ==
    /\ At("[")
    /\ IF Cell(memory, dataPointer) = 0
       THEN Jump(ScanForward(brainfuckCode, <<instructionPointer, 1>>))
       ELSE Jump(instructionPointer)
    /\ UNCHANGED <<params, rest, compilerVars, memory, dataPointer, output,
                   inputPointer>>

OpClose ==
    /\ At("]")
    /\ IF Cell(memory, dataPointer) # 0
       THEN Jump(ScanBackward(brainfuckCode, <<instructionPointer, 1>>))
       ELSE Jump(instructionPointer)
    /\ UNCHANGED <<params, rest, compilerVars, memory, dataPointer, output,
                   inputPointer>>

\* a character that is no operation is skipped
OpSkip ==
    /\ phase = "running"
    /\ instructionPointer < Len(brainfuckCode)
    /\ Instruction(brainfuckCode, instructionPointer) \notin Operations
    /\ instructionPointer' = instructionPointer + 1
    /\ Keep /\ UNCHANGED <<memory, dataPointer, output, inputPointer>>

\* the while loop ends: brainfuck returns output
Halt ==
    /\ phase = "running"
    /\ instructionPointer >= Len(brainfuckCode)
    /\ phase' = "halted"
    /\ UNCHANGED <<params, rest, thrown, compilerVars, executorVars>>

Compiling == DeclarationStep \/ AssignStep \/ ShowStep \/ LoopStep \/ IfStep

Executing == OpRight \/ OpLeft \/ OpPlus \/ OpMinus \/ OpDot \/ OpOpen \/ OpClose

----------------------------------------------------------------------------
(* Spec: programs of declarations, assignments, show, loop and if, run on  *)
(* the executor.                                                           *)

CopyRuns ==
    {Params("copy", 0, 0, v, w, 0, pre, b) :
        v \in 0..MaxVal, w \in 0..1, pre \in 0..1, b \in {MaxVal + 1}}

IfRuns ==
    {Params("if", 0, 0, v, w, form, pre, b) :
        v \in 0..MaxVal, w \in {0, 2}, form \in 0..3, pre \in 0..1,
        b \in {MaxVal + 1}}

LoopRuns ==
    {Params("loop", 0, 0, v, 0, form, pre, b) :
        v \in 0..MaxVal, form \in 0..1, pre \in 0..1, b \in {MaxVal + 1}}

\* the runs of one kind
Of(kind) == params.kind = kind

\* the address the declared scalar or array n is bound to
AddressOf(n) == variables[n].base

DynRuns ==
    {p \in {Params("dyn", n, i, v, w, form, pre, b) :
                n \in 1..MaxLen, i \in 0..(MaxLen - 1), v \in 0..MaxVal,
                w \in {1}, form \in 0..2, pre \in 0..1, b \in {MaxVal + 1}} :
        /\ p.i < p.n
        /\ p.n <= p.bits
        /\ IndexSeed(p) \in 0..(p.bits - 1)}

LoopDynRuns ==
    {p \in {Params("loopdyn", n, i, 0, 0, form, 0, b) :
                n \in 1..MaxLen, i \in 0..(MaxLen - 1), form \in 0..1,
                b \in {MaxLen + 1}} :
        p.i < p.n}

Init == \E p \in CopyRuns \cup IfRuns \cup LoopRuns \cup DynRuns \cup LoopDynRuns :
            InitState(p)

Next == CompileBegin \/ Compiling \/ CompileEnd \/ Run \/ Executing \/ Halt

Spec == Init /\ [][Next]_vars

\* the executor's while loop takes its next step as long as there is one
FairSpec == Spec /\ WF_vars(Executing \/ Halt)

----------------------------------------------------------------------------
(* SpecCall: a function is defined and called after a prefix.              *)

CallRuns ==
    {p \in {Params("call", 0, 0, v, 0, form, pre, b) :
                v \in 1..MaxVal, form \in 0..4, pre \in 0..2, b \in {MaxVal + 1}} :
        p.form = 2 => p.pre = 1}

InitCall == \E p \in CallRuns : InitState(p)

NextCall ==
    \/ CompileBegin \/ DeclarationStep \/ AssignStep \/ ShowStep
    \/ FunctionStep \/ CallStep \/ CompileEnd
    \/ Run \/ Executing \/ OpSkip \/ Halt

SpecCall == InitCall /\ [][NextCall]_vars

----------------------------------------------------------------------------
(* SpecAlloc: the allocator under declarations, show and unsafe blocks.    *)

\* most statements in an allocator run
MaxStmts == 3

RECURSIVE Picks(_)
Picks(len) ==
    IF len = 0 THEN {<<>>}
    ELSE LET shorter == Picks(len - 1)
         IN  shorter \cup {Append(s, k) : s \in {t \in shorter : Len(t) = len - 1},
                                          k \in 1..Len(Pool)}

AllocRuns ==
    {[Params("alloc", 0, 0, 0, 0, 0, 0, 2) EXCEPT !.picks = s] : s \in Picks(MaxStmts)}

InitAlloc == \E p \in AllocRuns : InitState(p)

NextAlloc == CompileBegin \/ DeclarationStep \/ ShowStep \/ UnsafeStep \/ CompileEnd

SpecAlloc == InitAlloc /\ [][NextAlloc]_vars

----------------------------------------------------------------------------
(* SpecStmt: single statements after various prefixes, run on the          *)
(* executor.                                                               *)

\* largest value a shown scalar is set to
MaxShown == 11

\* largest amount an unsafe block adds or reduces by
MaxAmount == 5

\* largest offset of a goto, in either direction
MaxOffset == 2

StmtRuns ==
    {Params("show", 0, 0, v, 0, form, pre, b) :
        v \in 0..MaxShown, form \in 0..3, pre \in 0..5, b \in {MaxShown + 1}}
    \cup {Params("input", 0, 0, 0, 0, 0, pre, MaxShown + 1) : pre \in 0..2}
    \cup {p \in {Params("error", 0, 0, v, 0, form, pre, MaxShown + 1) :
                    v \in 1..4, form \in 1..18, pre \in 0..3} :
             \* cnt is declared when pre = 1
             ~(p.v = 3 /\ p.pre = 1)}
    \cup {Params("registry", 0, 0, 0, 0, form, pre, MaxShown + 1) :
             form \in 1..9, pre \in 0..1}
    \cup {Params("unsafe", 0, 0, v, 0, form, pre, MaxShown + 1) :
             v \in 0..MaxAmount, form \in 0..5, pre \in 0..2}
    \cup {Params("unsafe", 0, 0, v, 0, form, 3, MaxShown + 1) :
             v \in 0..MaxAmount, form \in 0..1}
    \cup {[Params("abstract", 0, 0, 0, 0, 0, pre, MaxShown + 1) EXCEPT !.picks = s] :
             s \in UNION {[1..k -> 1..3] : k \in 0..MaxLen}, pre \in 0..1}
    \cup {Params("goto", n, i, 0, w, 0, pre, MaxShown + 1) :
             n \in 1..2, i \in (-MaxOffset)..MaxOffset,
             w \in (-MaxOffset)..MaxOffset, pre \in 0..1}
    \cup {Params("redecl", 0, 0, v, 0, form, pre, MaxShown + 1) :
             v \in 1..MaxVal, form \in 0..5, pre \in 0..1}
    \cup {Params("dump", 0, i, v, 0, 0, 0, MaxShown + 1) : i \in 0..7, v \in 1..MaxVal}
    \cup {Params("self", 0, 0, v, 0, form, pre, MaxShown + 1) :
             v \in 1..MaxVal, form \in 0..4, pre \in 0..1}
    \cup {Params("iter", 0, 0, v, 0, form, pre, MaxShown + 1) :
             v \in 0..MaxVal, form \in 0..5, pre \in 0..1}
    \cup {Params("frame", n, i, v, 0, form, pre, MaxShown + 1) :
             n \in 1..MaxLen, i \in 0..MaxLen, v \in 0..MaxVal,
             form \in 0..2, pre \in 0..1}
    \cup {Params("uloop", n, i, v, w, form, pre, MaxShown + 1) :
             n \in 1..2, i \in 0..1, v \in 0..MaxVal, w \in (-1)..0,
             form \in 0..3, pre \in 0..1}
    \cup {Params("again", n, i, v, w, 0, 0, MaxShown + 1) :
             n \in 0..1, i \in 1..6, w \in 1..6, v \in {MaxVal}}
    \cup {Params("sub", n, 0, 0, 0, form, pre, MaxShown + 1) :
             n \in 1..MaxStmts, form \in 0..2, pre \in 0..1}

InitStmt == \E p \in StmtRuns : InitState(p)

NextStmt ==
    \/ CompileBegin \/ DeclarationStep \/ AssignStep \/ ShowStep \/ InputStep
    \/ LoopStep \/ IfStep \/ UnsafeStep \/ FunctionStep \/ CallStep
    \/ UnhandledStep \/ CompileEnd \/ CompileAgain
    \/ Run \/ Executing \/ OpTilde \/ OpComma \/ OpSkip \/ Halt

SpecStmt == InitStmt /\ [][NextStmt]_vars

----------------------------------------------------------------------------
(* Properties.                                                             *)

\* the compiler state a top-level compile starts from
InitialContext ==
    [brainfuckCode |-> <<>>, emittedAt |-> <<>>, memoryUsage |-> <<>>,
     variables |-> <<>>, pointerLocation |-> 0, functions |-> InitialFunctions,
     unsafePointerLocation |-> NoPointer, allocLog |-> <<>>, reserved |-> {},
     ret |-> 0, err |-> ""]

\* C1: whenever the executor is about to run an emitted instruction, the
\* run-time data pointer is the pointer the compiler tracked when it
\* emitted that instruction.  Violated once a function is called after the
\* pointer has moved.
PointerSynchronised ==
    (phase = "running" /\ instructionPointer < Len(brainfuckCode))
        => dataPointer = emittedAt[instructionPointer + 1]

\* C2: the output of  set a[e] v ; show a[e]  is v, for every length, every
\* in-range value of the index expression e and every v below the modulus
\* the executor reduces cells by.
DynamicIndexRoundTrip ==
    (Of("dyn") /\ phase = "halted")
        => output = PrefixOutput(params.pre) \o Decimal(params.v)

DynamicIndexRoundTripWitness ==
    /\ Of("dyn") /\ phase = "halted"
    /\ params.n = MaxLen /\ params.i = MaxLen - 1 /\ params.form = 1
    /\ params.v = MaxVal /\ params.pre = 1
    /\ output = PrefixOutput(1) \o Decimal(MaxVal)

CallEqualsInlining ==
    (Of("call") /\ phase = "compiled")
        => brainfuckCode
             = compile(InitialContext, InlinedProgram(params), TRUE).brainfuckCode

\* C5: compiling a call keeps the caller's context: every variable stays
\* bound as it was, every allocator entry stays, and the first instruction
\* the call emits is emitted at the caller's pointer position.
CallKeepsContext ==
    [][(/\ phase = "compiling" /\ phase' = "compiling"
        /\ rest # <<>> /\ Head(rest).tokenType = "Call")
       => /\ \A n \in DOMAIN variables :
                n \in DOMAIN variables' /\ variables'[n] = variables[n]
          /\ \A k \in 1..Len(memoryUsage) : MapHas(memoryUsage', memoryUsage[k].loc)
          /\ Len(emittedAt') > Len(emittedAt)
                => emittedAt'[Len(emittedAt) + 1] = pointerLocation]_vars

\* C6: while an unsafe region is reserved, findEmptyLocation never answers
\* an address inside the region.
NoAllocationInReservedRegion ==
    \A k \in 1..Len(allocLog) :
        allocLog[k].fn = "findEmptyLocation" => ~allocLog[k].inRegion

\* C7: neither allocator ever answers an address whose status at that
\* moment is Named or Temporary.
NoReuseOfLiveCells ==
    \A k \in 1..Len(allocLog) :
        \A j \in 1..Len(allocLog[k].status) : allocLog[k].status[j] = "Free"

\* C8: after  set b a  the cells of a and b both hold the value a held.
CopyKeepsSource ==
    (Of("copy") /\ phase = "halted")
        => /\ Cell(memory, AddressOf("a")) = params.v
           /\ Cell(memory, AddressOf("b")) = params.v

CopyKeepsSourceWitness ==
    /\ Of("copy") /\ phase = "halted"
    /\ params.v = MaxVal /\ params.w = 1 /\ params.pre = 1
    /\ Cell(memory, AddressOf("a")) = MaxVal
    /\ Cell(memory, AddressOf("b")) = MaxVal

\* the cell an if or loop tests: the one its closing bracket is emitted at
ConditionCell == emittedAt[Len(emittedAt)]

\* C9: if cond { body }  runs body once when cond is nonzero and not at
\* all when it is zero, whatever body does to cond, and the cell holding
\* cond is zero afterwards.
IfRunsBodyAtMostOnce ==
    (Of("if") /\ phase = "halted")
        => /\ output = PrefixOutput(params.pre)
                         \o (IF params.v # 0 THEN MarkText ELSE <<>>)
           /\ Cell(memory, ConditionCell) = 0
           /\ params.form # 3 => ConditionCell = AddressOf("c")

IfRunsBodyAtMostOnceWitness ==
    /\ Of("if") /\ phase = "halted"
    /\ params.v = 2 /\ params.form = 2 /\ params.pre = 1
    /\ output = PrefixOutput(1) \o MarkText
    /\ Cell(memory, AddressOf("c")) = 0

\* C10: loop c { body }  with c = n and a body that takes one from c each
\* time terminates after running body n times, with c zero.
LoopRepeatsBody ==
    (Of("loop") /\ phase = "running") ~>
          (/\ Of("loop") /\ phase = "halted"
           /\ output = PrefixOutput(params.pre) \o Marks(params.v)
           /\ Cell(memory, AddressOf("c")) = 0)

LoopRepeatsBodyWitness ==
    /\ Of("loop") /\ phase = "halted"
    /\ params.v = MaxVal /\ params.form = 1 /\ params.pre = 1
    /\ output = PrefixOutput(1) \o Marks(MaxVal)
    /\ Cell(memory, AddressOf("c")) = 0

\* what show prints for the value v of x: x is a char in forms 1 and 2
Rendering(p) == IF p.form \in {1, 2} THEN <<p.v>> ELSE Decimal(p.v)

InputOnScalar ==
    Of("input")
        => /\ phase # "failed"
           /\ phase = "compiled"
                => /\ pointerLocation = AddressOf("x")
                   /\ brainfuckCode[Len(brainfuckCode)] = ","
                   /\ Cardinality({k \in 1..Len(brainfuckCode) :
                                       brainfuckCode[k] = ","}) = 1

\* the name variableNotFoundMessage is expected to suggest, "" for none:
\* the first declared name within edit distance 2, letter case ignored
Suggested(p) ==
    IF p.form = 18 THEN ""
    ELSE IF p.pre = 1 THEN <<"cnt", "arr", "", "">>[p.v]
    ELSE IF p.pre = 2 THEN <<"", "ab", "", "">>[p.v]
    ELSE IF p.pre = 3 THEN <<"Cnt", "", "Cnt", "">>[p.v]
    ELSE ""

\* the Error the failing statement of an error run is expected to throw
ExpectedError(p) ==
    IF p.form \in {5, 6} THEN "woopsies"
    ELSE IF p.form = 12 THEN "Unsupported nested operator *"
    ELSE IF p.form = 13 THEN "Unsupported nested operator /"
    ELSE IF p.form = 14 THEN "Function nofn not defined"
    ELSE IF p.form \in {15, 16} THEN "Unhandled token type Bogus"
    ELSE IF p.form = 17 THEN "Unknown Unsafe token Bogus"
    ELSE "Variable " \o UndeclaredName(p) \o " not declared"
         \o (IF Suggested(p) = "" THEN ""
             ELSE ". Did you mean '" \o Suggested(p) \o "'?")

\* C13: a statement that mentions an undeclared variable, evaluates * or /,
\* calls an unregistered function or has an unknown token type ends the
\* compilation with its Error: the statement after it is never visited and
\* no code is returned; a suggestion shows in the message only.
FatalCompileErrors ==
    Of("error")
        => /\ phase \in {"idle", "compiling", "failed"}
           /\ phase = "compiling" => Len(rest) >= 2
           /\ phase = "failed" => Len(rest) = 1 /\ thrown = ExpectedError(params)

FatalCompileErrorsWitness ==
    /\ Of("error") /\ phase = "failed"
    /\ params.form = 1 /\ params.pre = 2 /\ params.v = 2
    /\ thrown = "Variable ad not declared. Did you mean 'ab'?"
    /\ rest = <<Mark>>

\* the tokens of the program that compile has visited so far
Visited ==
    SubSeq(Program(params), 1, Len(Program(params)) - Len(rest))

\* the bodies of the Function statements compiled while `tokens` was
\* compiled, those compiled inside called functions included
RECURSIVE DefinedBy(_, _)
DefinedBy(tokens, defs) ==
    IF tokens = <<>> THEN defs
    ELSE LET t == Head(tokens)
         IN  DefinedBy(Tail(tokens),
                       IF t.tokenType = "Function"
                       THEN [n \in DOMAIN defs \cup {t.name} |->
                                IF n = t.name THEN t.body ELSE defs[n]]
                       ELSE IF t.tokenType = "Call" /\ t.name \in DOMAIN defs
                       THEN DefinedBy(defs[t.name], defs)
                       ELSE defs)

\* every call met while `tokens` is compiled names a function defined by then
RECURSIVE CallsResolve(_, _)
CallsResolve(tokens, defs) ==
    \/ tokens = <<>>
    \/ LET t == Head(tokens)
       IN  /\ t.tokenType = "Call"
                => t.name \in DOMAIN defs /\ CallsResolve(defs[t.name], defs)
           /\ CallsResolve(Tail(tokens), DefinedBy(<<t>>, defs))

SubtractionStep ==
    /\ Of("sub") /\ phase = "compiling" /\ rest # <<>>
    /\ Head(rest).tokenType \in {"Assign", "Show"}
    /\ Head(rest).value.tokenType = "Math"

\* the cells subtract obtained while the statement was compiled: its
\* result cell and the two cells copy returned to it are the fifth-last,
\* third-last and last answers of the allocator
SubtractCell(log, k) == log[Len(log) - k].loc

TemporaryCells(m) == {a \in MapKeys(m) : StatusOf(m, a) = "Temporary"}

FirstCall(fn) ==
    /\ Of("alloc") /\ phase = "compiling"
    /\ Len(allocLog') > Len(allocLog)
    /\ allocLog'[Len(allocLog) + 1].fn = fn

FirstAnswer == allocLog'[Len(allocLog) + 1]

\* the lowest address whose status is Free; one of 0..Len(m) is no key of m
LowestFree(m) ==
    CHOOSE a \in 0..Len(m) :
        /\ StatusOf(m, a) = "Free"
        /\ \A b \in 0..(a - 1) : StatusOf(m, b) # "Free"

\* C16: findEmptyLocation answers the lowest address that is Free (and so
\* one past the highest address touched when none below it is Free).
SingleCellAllocation ==
    [][FirstCall("findEmptyLocation")
       => FirstAnswer.loc = LowestFree(memoryUsage)]_vars

\* the addresses start..start+size-1 are all Free
FreeRun(m, start, size) ==
    \A i \in 0..(size - 1) : StatusOf(m, start + i) = "Free"

\* the start of the lowest run of size Free addresses; the run that starts
\* past every key is one
LowestFreeRun(m, size) ==
    CHOOSE start \in 0..(Len(m) * (size + 1)) :
        /\ FreeRun(m, start, size)
        /\ \A b \in 0..(start - 1) : ~FreeRun(m, b, size)

\* C17 as stated: findContiguousFreeRegion(size) answers the start of the
\* lowest run of size Free addresses, freed cells counting as Free.
\* Violated: a freed cell is a key of memoryUsage and counts as used.
RegionAllocation ==
    [][FirstCall("findContiguousFreeRegion")
       => FirstAnswer.loc = LowestFreeRun(memoryUsage, FirstAnswer.size)]_vars

\* the addresses start..start+size-1 are no keys of the map
UntouchedRun(m, start, size) ==
    \A i \in 0..(size - 1) : ~MapHas(m, start + i)

\* C17, amended: findContiguousFreeRegion(size) answers the start of the
\* lowest run of size addresses that are no keys of memoryUsage (never
\* touched, or deleted); a cell marked freed counts as used.
RegionAllocationSkipsFreed ==
    [][FirstCall("findContiguousFreeRegion")
       => /\ UntouchedRun(memoryUsage, FirstAnswer.loc, FirstAnswer.size)
          /\ \A b \in 0..(FirstAnswer.loc - 1) :
                ~UntouchedRun(memoryUsage, b, FirstAnswer.size)]_vars

\* an array was placed past a freed cell:
\* unsafe 1 { add 1 show } ; define a 2
RegionAllocationSkipsFreedWitness ==
    /\ Of("alloc") /\ phase = "compiled"
    /\ "a" \in DOMAIN variables /\ AddressOf("a") = 3
    /\ ~MapHas(memoryUsage, 0)
    /\ MapHas(memoryUsage, 1) /\ StatusOf(memoryUsage, 1) = "Free"

\* the addresses of the run the array n is bound to
RunOf(n) == {variables[n].base + i : i \in 0..(variables[n].length - 1)}

\* the addresses an answer of an allocator covers
Answered(entry) == {entry.loc + i : i \in 0..(entry.size - 1)}

\* element i of the bound array a is the owner of address base+i
ElementsInPlace ==
    (Of("alloc") /\ "a" \in DOMAIN variables)
        => \A i \in 0..(variables["a"].length - 1) :
               MapGet(memoryUsage, variables["a"].base + i)
                   = NamedCell("a", i, variables["a"].type)

\* while a is bound no answer of an allocator covers an address of its run
RunNotHandedOut ==
    [][(Of("alloc") /\ "a" \in DOMAIN variables)
       => \A k \in (Len(allocLog) + 1)..Len(allocLog') :
              Answered(allocLog'[k]) \cap RunOf("a") = {}]_vars

\* C18: after define a N element i of a is bound to address base+i, and
\* while a is bound no address of the run is bound to anything else or
\* answered by an allocator.
ArrayContiguity == []ElementsInPlace /\ RunNotHandedOut

\* unsafe 1 { add 1 show } ; define a 2 ; define x : the scalar was
\* allocated while a was bound to the run 3, 4
ArrayContiguityWitness ==
    /\ Of("alloc") /\ phase = "compiled"
    /\ params.picks = <<5, 3, 1>>
    /\ "a" \in DOMAIN variables /\ RunOf("a") = {3, 4}
    /\ "x" \in DOMAIN variables
    /\ allocLog[Len(allocLog)].fn = "findEmptyLocation"

\* the amount e of the block's add or reduce
UnsafeAmount(p) == IF p.form = 3 THEN (p.v + 1) % p.bits ELSE p.v

\* what the block's show instructions print when the add or reduce changes
\* the designated cell, holding c before, by the amount
UnsafeShown(p, c) ==
    IF p.form = 0 THEN Decimal(p.v)
    ELSE Decimal(c)
         \o Decimal(IF p.form \in {4, 5} THEN (c + p.bits - UnsafeAmount(p)) % p.bits
                    ELSE (c + UnsafeAmount(p)) % p.bits)

\* C19: inside an unsafe block add e raises the designated cell by exactly
\* e and reduce e lowers it by exactly e, for literal, variable and math
\* amounts; unsafe 1 { add 5 show } prints 5.
UnsafeAddReduce ==
    Of("unsafe")
        => /\ phase # "failed"
           /\ phase = "halted"
                => \E c \in 0..(params.bits - 1) :
                       output = PrefixOutput(IF params.pre = 1 THEN 1 ELSE 0)
                                    \o UnsafeShown(params, c)

\* the instructions moveTo emits on the way from one address to another
PointerMoves(from, to) ==
    IF to >= from THEN Rep(">", to - from) ELSE Rep("<", from - to)

\* C20: the block  unsafe 1 { abstract c1 .. cn end }  appends the move to
\* its cell, then exactly c1 .. cn, then the clearing of its cell.
RawEscapeVerbatim ==
    [][(/\ Of("abstract") /\ phase = "compiling" /\ rest # <<>>
        /\ Head(rest).tokenType = "Unsafe")
       => brainfuckCode'
            = brainfuckCode
                \o PointerMoves(pointerLocation, allocLog'[Len(allocLog) + 1].loc)
                \o Head(rest).body[1].bf
                \o <<"[", "-", "]">>]_vars

\* C21: each show of  unsafe n { goto i show goto w show }  is emitted with
\* the unsafe pointer and the tracked pointer (show brings the one to the
\* other) on an address of the block's region, none of them negative.
UnsafePointerInRegion ==
    [][(/\ Of("goto") /\ phase = "compiling" /\ rest # <<>>
        /\ Head(rest).tokenType = "Unsafe")
       => LET start == allocLog'[Len(allocLog) + 1].loc
          IN  \A j \in (Len(brainfuckCode) + 1)..Len(brainfuckCode') :
                  brainfuckCode'[j] = "."
                      => /\ emittedAt'[j] >= 0
                         /\ emittedAt'[j] \in start..(start + params.n - 1)]_vars

\* a dynamic-index write or read of a is being compiled
ScanStep ==
    /\ Of("dyn") /\ phase = "compiling" /\ rest # <<>>
    /\ \/ Head(rest).tokenType = "Assign" /\ ~Head(rest).static
       \/ /\ Head(rest).tokenType = "Show"
          /\ Head(rest).value.tokenType = "Variable" /\ ~Head(rest).value.static

\* the cells the statement keeps Temporary beside those of the scan: the two
\* of an index expression i - 1 or i + 1 (its literal and its result), and
\* the result cell of a read
KeptBesideScan(p, token) ==
    (IF p.form = 0 THEN 0 ELSE 2) + (IF token.tokenType = "Show" THEN 1 ELSE 0)

\* C22: a dynamic-index write or read over an array of length N leaves no
\* probe or guard cell of its scan Temporary: the number of Temporary cells
\* grows by the cells kept beside the scan, whatever N is.
DynamicAccessFreesScratch ==
    [][ScanStep
       => Cardinality(TemporaryCells(memoryUsage'))
            = Cardinality(TemporaryCells(memoryUsage))
                + KeptBesideScan(params, Head(rest))]_vars

\* the statement being compiled refers to a declared name by a static index
StaticReference ==
    /\ Of("redecl") /\ phase = "compiling" /\ rest # <<>>
    /\ \/ Head(rest).tokenType = "Assign" /\ Head(rest).static
       \/ /\ Head(rest).tokenType = "Show"
          /\ Head(rest).value.tokenType = "Variable" /\ Head(rest).value.static
       \/ Head(rest).tokenType = "Input"

\* the cell of the last declaration that the statement's reference names
LastDeclared(token) ==
    IF token.tokenType = "Assign" THEN AddressOf(token.name) + token.index
    ELSE IF token.tokenType = "Show"
    THEN AddressOf(token.value.name) + token.value.index
    ELSE AddressOf(token.variable)

\* what the program prints when every reference names the last declaration
LastWinsOutput(p) ==
    PrefixOutput(p.pre)
        \o (IF p.form = 4 THEN <<>> ELSE IF p.form = 1 THEN <<p.v>> ELSE Decimal(p.v))

\* the cells both declarations of the name own
OwnedBy(n) ==
    {a \in MapKeys(memoryUsage) :
        StatusOf(memoryUsage, a) = "Named" /\ MapGet(memoryUsage, a).name = n}

\* the cells of the earlier declaration stay Named beside those of the last
EarlierCellsLeak ==
    (Of("redecl") /\ phase \in {"compiled", "running", "halted"})
        => Cardinality(OwnedBy(IF params.form \in {0, 1, 4} THEN "x" ELSE "a"))
             = (IF params.form \in {0, 1, 4} THEN 2 ELSE 4)

\* the compiled program prints what the last declaration's cells hold
LastWinsAtRunTime ==
    Of("redecl")
        => /\ phase # "failed"
           /\ phase = "halted" => output = LastWinsOutput(params)

\* a static reference leaves the tracked pointer on the last declaration's cell
LastWinsAtCompileTime ==
    [][StaticReference => pointerLocation' = LastDeclared(Head(rest))]_vars

\* C23: after a name is declared twice every later reference, static or
\* dynamic, names the cells of the last declaration, and the cells of the
\* earlier one stay allocated.
RedeclarationLastWins ==
    [](EarlierCellsLeak /\ LastWinsAtRunTime) /\ LastWinsAtCompileTime

\* C24: with $__dump put at any position of
\* define x ; set x v ; show x ; define y ; set y x ; show y
\* the program compiles, prints v twice and leaves v in the cells of x and
\* y (addresses 0 and 1), as it does without the call.
DumpIsHarmless ==
    Of("dump")
        => /\ phase # "failed"
           /\ phase = "halted"
                => /\ output = Decimal(params.v) \o Decimal(params.v)
                   /\ Cell(memory, 0) = params.v
                   /\ Cell(memory, 1) = params.v

\* const cellSize = 2 ** bits
cellSize(bits) == 2 ^ bits

\* C25: the executor's + stores (c + 1) mod 2^bits and its - stores
\* (c - 1) mod 2^bits in the cell under the data pointer holding c.
ExecutorCellWidth ==
    [][/\ At("+") => Cell(memory', dataPointer)
                        = (Cell(memory, dataPointer) + 1) % cellSize(params.bits)
       /\ At("-") => Cell(memory', dataPointer)
                        = (Cell(memory, dataPointer) - 1) % cellSize(params.bits)]_vars

\* C26: set t e stores in t the value e had before the statement: set a a
\* keeps a, set i a[i] stores the element the old i selects, set a (a + 1)
\* stores the old a plus one, set b a and set t a[i] store the source.
AssignReadsOldState ==
    Of("self")
        => /\ phase # "failed"
           /\ phase = "halted"
                => output = PrefixOutput(params.pre)
                              \o Decimal(IF params.form = 2 THEN params.v + 1
                                         ELSE params.v)

\* what the loop body prints on the iteration that starts with c
IterationValue(p, c) ==
    IF p.form \in {0, 3} THEN c + 1
    ELSE IF p.form \in {1, 4} THEN c - 1
    ELSE 2

\* what the iterations from c down to 1 print
RECURSIVE IterationsOutput(_, _)
IterationsOutput(p, c) ==
    IF c = 0 THEN <<>>
    ELSE Decimal(IterationValue(p, c)) \o IterationsOutput(p, c - 1)

\* C27: a show or a set of an addition, a subtraction or a dynamic-index
\* read inside a loop body prints or stores, on every iteration, the value
\* of the expression at that iteration.
SameOnEveryIteration ==
    Of("iter")
        => LET expected == PrefixOutput(params.pre)
                             \o IterationsOutput(params, params.v)
           IN  /\ phase # "failed"
               /\ phase = "running"
                    => /\ Len(output) <= Len(expected)
                       /\ output = SubSeq(expected, 1, Len(output))
               /\ phase = "halted" => output = expected

\* what a call of compile gave its caller: the instruction string, or the
\* message of the Error it threw
Returned(code, err) == IF err # "" THEN <<"Error", err>> ELSE <<"code", code>>

\* the same call made first in a process
FirstInProcess(p) ==
    Bind(compile(InitialContext, Program(p), TRUE),
         LAMBDA c : Returned(c.brainfuckCode, c.err))

\* C28: the compile call of a run returns what it returns as the first call
\* of a process, whatever call was made before it.
CompilationsIndependent ==
    (Of("again") /\ params.n = 0 /\ phase \in {"compiled", "failed"})
        => Returned(brainfuckCode, thrown) = FirstInProcess(params)

\* the brackets among instructions lo..hi: whether every pair inside closes at
\* the tracked pointer of its opening bracket, and the tracked pointers of the
\* brackets left without a partner inside, in order
RECURSIVE Brackets(_, _)
Brackets(lo, hi) ==
    IF lo > hi THEN [ok |-> TRUE, closes |-> <<>>, opens |-> <<>>]
    ELSE IF lo = hi
    THEN [ok |-> TRUE,
          closes |-> IF brainfuckCode[lo] = "]" THEN <<emittedAt[lo]>> ELSE <<>>,
          opens |-> IF brainfuckCode[lo] = "[" THEN <<emittedAt[lo]>> ELSE <<>>]
    ELSE LET mid == (lo + hi) \div 2
             l == Brackets(lo, mid)
             r == Brackets(mid + 1, hi)
             k == IF Len(l.opens) < Len(r.closes) THEN Len(l.opens)
                  ELSE Len(r.closes)
         IN  [ok |-> /\ l.ok /\ r.ok
                     /\ \A t \in 1..k : l.opens[Len(l.opens) - t + 1] = r.closes[t],
              closes |-> l.closes \o SubSeq(r.closes, k + 1, Len(r.closes)),
              opens |-> SubSeq(l.opens, 1, Len(l.opens) - k) \o r.opens]

\* C29: in a compiled program, the tracked pointer at every closing bracket
\* the compiler emitted equals the tracked pointer at its opening bracket.
LoopsPointerNeutral ==
    (phase = "compiled" /\ ~Of("abstract"))
        => Brackets(1, Len(brainfuckCode))
               = [ok |-> TRUE, closes |-> <<>>, opens |-> <<>>]

\* the element the run-time index selects holds k + 1 before the access
Selected(p) == IF p.i < p.n THEN p.i + 1 ELSE 0

\* C30: after  set a[i] v  the element a[i] holds v, and every other element,
\* i and v hold what they held; with i >= N no element changes.  After a
\* dynamic read every element and i hold what they held, and the value read
\* is that of a[i], or 0 when i >= N.
DynamicAccessFrame ==
    (Of("frame") /\ phase = "halted")
        => /\ \A k \in 0..(params.n - 1) :
                  Cell(memory, AddressOf("a") + k)
                      = IF params.form = 0 /\ k = params.i THEN params.v ELSE k + 1
           /\ Cell(memory, AddressOf("i")) = params.i
           /\ params.form = 0 => Cell(memory, AddressOf("v")) = params.v
           /\ params.form = 1 => Cell(memory, AddressOf("v")) = Selected(params)
           /\ params.form # 0
                  => output = PrefixOutput(params.pre) \o Decimal(Selected(params))

DynamicAccessFrameWitness ==
    /\ Of("frame") /\ phase = "halted"
    /\ params.form = 0 /\ params.n = MaxLen /\ params.i = MaxLen /\ params.v = 0
    /\ params.pre = 1
    /\ \A k \in 0..(MaxLen - 1) : Cell(memory, AddressOf("a") + k) = k + 1

====
